---- MODULE Spec2Model ----
(***************************************************************************)
(* TriCare-AI backend: the four-stage symptom-routing workflow             *)
(* (app/graphs/symptom_workflow.py), its HTTP route                        *)
(* (app/api/routes/symptoms.py) and the reply parsing every stage uses.    *)
(*                                                                         *)
(* Text is modelled as a sequence of tokens.  A token is a triple of       *)
(* strings <<kind, name, literal>>:                                        *)
(*   <<"{","","">>      the character {                                    *)
(*   <<"}","","">>      the character }                                    *)
(*   <<"k{",f,"">>      the text  "f": {   (a member whose value is an     *)
(*                      object; it ends with the character {)              *)
(*   <<"m",f,lit>>      the text  "f": lit  (a member with a scalar or     *)
(*                      list value; holds no brace)                        *)
(*   <<"n","","">>      a word of prose (no brace, not JSON)               *)
(*   <<"v","","">>      a JSON value that is not an object (e.g. 42)       *)
(* Python values are records [t |-> type, v |-> sequence of strings].      *)
(***************************************************************************)
EXTENDS Integers, Sequences, FiniteSets, TLC

VARIABLES
    pc,        \* position of the request handler / workflow run
    node,      \* the graph node the run is at ("" when none)
    ctx,       \* the SymptomState dict threaded through the nodes
    created,   \* the initial_state the run was created with
    inflight,  \* nodes whose chat_model.ainvoke call is awaiting its reply
    calls,     \* history: nodes whose ainvoke was called, in order (this run)
    completed, \* history: nodes that returned their state, in order (this run)
    requests,  \* history: node -> the user message it sent (this run)
    replies,   \* history: node -> the parsed reply object it was given (this run)
    err,       \* the exception the run raised ("" when none)
    errmsg,    \* str(e) of that exception (pieces of text)
    resp,      \* the HTTP response of route_symptoms
    runs,      \* number of requests handled so far
    pyfmt,     \* how the build's Python formats a str-mixin Enum in an f-string
    pphase,    \* reply-parsing harness: position
    pbody,     \* reply-parsing harness: the reply body
    pres,      \* reply-parsing harness: what the stage obtained
    instance,  \* concurrent requests: the module's _symptom_workflow singleton
    crun,      \* concurrent requests: request id -> its handler's position, messages, events
    cstate,    \* concurrent requests: state channel -> the SymptomState held in it
    first,     \* history: the shape of the state the latest returned run ended with
    users,     \* accounts: the rows of the users table, in order of their id
    hreq,      \* accounts: handler -> the request it is serving and its response
    issued,    \* accounts: ids of the users a token pair was issued for
    served,    \* accounts: number of requests received so far
    jwts,      \* accounts: the JWTs created so far
    past,      \* accounts: the expiry instants that now lie in the past
    doc,       \* doctor finder: the search being served and its response
    guess,     \* doctor finder: the latest call of _guess_state_from_zip
    records,   \* health history: table -> its rows, in order of insertion
    hist       \* health history: the latest request and its response

vars == <<pc, node, ctx, created, inflight, calls, completed, requests, replies,
          err, errmsg, resp, runs, pyfmt, pphase, pbody, pres, instance, crun, cstate, first,
          users, hreq, issued, served, jwts, past, doc, guess,
          records, hist>>
pipeVars == <<pc, node, ctx, created, inflight, calls, completed, requests, replies,
              err, errmsg, resp, runs, pyfmt>>
parseVars == <<pphase, pbody, pres>>
concVars == <<instance, crun, cstate>>
authVars == <<users, hreq, issued, served, jwts, past>>
docVars == <<doc, guess>>
histVars == <<records, hist>>
nonAuthVars == <<pipeVars, parseVars, concVars, first, docVars, histVars>>
nonPipeVars == <<parseVars, concVars, first, authVars, docVars, histVars>>
nonDocVars == <<pipeVars, parseVars, concVars, first, authVars, histVars>>
nonHistVars == <<pipeVars, parseVars, concVars, first, authVars, docVars>>

(***************************************************************************)
(* Bounds                                                                  *)
(***************************************************************************)
MaxRuns == 2     \* requests handled one after another on the shared workflow
MaxMid == 6      \* longest brace/member token string tried as a reply core
MaxAuthRequests == 4   \* account requests received in all

(***************************************************************************)
(* Tokens                                                                  *)
(***************************************************************************)
L == <<"{", "", "">>
R == <<"}", "", "">>
N == <<"n", "", "">>
V == <<"v", "", "">>
M(f, lit) == <<"m", f, lit>>
K(f) == <<"k{", f, "">>

IsOpen(t) == t[1] \in {"{", "k{"}
IsClose(t) == t[1] = "}"
IsBrace(t) == IsOpen(t) \/ IsClose(t)

Min(S) == CHOOSE x \in S : \A y \in S : x <= y
Max(S) == CHOOSE x \in S : \A y \in S : x >= y

(***************************************************************************)
(* json.loads on a token string.  An object is { members } where a member  *)
(* is an "m" token or a "k{" token followed by members and a closing }.    *)
(* MembersEnd(s, j) is the index of the } that closes the member list      *)
(* starting at j, or 0 when the text is not valid JSON.                    *)
(***************************************************************************)
RECURSIVE MembersEnd(_, _)
MembersEnd(s, j) ==
    IF j > Len(s) THEN 0
    ELSE CASE s[j][1] = "}" -> j
           [] s[j][1] = "m" -> MembersEnd(s, j + 1)
           [] s[j][1] = "k{" ->
                LET e == MembersEnd(s, j + 1)
                IN  IF e = 0 THEN 0 ELSE MembersEnd(s, e + 1)
           [] OTHER -> 0

NoValue == [ok |-> FALSE, kind |-> "none", obj |-> <<>>]

json_loads(s) ==
    IF Len(s) > 0 /\ s[1] = L /\ MembersEnd(s, 2) = Len(s)
    THEN [ok |-> TRUE, kind |-> "dict", obj |-> s]
    ELSE IF s = <<V>>
    THEN [ok |-> TRUE, kind |-> "other", obj |-> <<>>]
    ELSE NoValue

(***************************************************************************)
(* re.search with the stages' pattern: an opening brace, a run of          *)
(* non-brace characters, any number of groups "opening brace, non-braces,  *)
(* closing brace, non-braces", and a closing brace.  The leftmost start    *)
(* that matches wins.  From a given start the pattern can match in one way *)
(* only (a run of non-braces is always followed by a brace), so the match  *)
(* from a start is unique when it exists.                                  *)
(***************************************************************************)
RECURSIVE SkipNonBrace(_, _)
SkipNonBrace(s, j) ==
    IF j > Len(s) \/ IsBrace(s[j]) THEN j ELSE SkipNonBrace(s, j + 1)

RECURSIVE MatchTail(_, _)
MatchTail(s, j) ==
    IF j > Len(s) THEN 0
    ELSE IF IsClose(s[j]) THEN j
    ELSE LET j2 == SkipNonBrace(s, j + 1)
         IN  IF j2 > Len(s) \/ ~IsClose(s[j2]) THEN 0
             ELSE MatchTail(s, SkipNonBrace(s, j2 + 1))

MatchEnd(s, i) == MatchTail(s, SkipNonBrace(s, i + 1))

\* mutant of re_search: re.match, which matches at the start of the text only
re_match(s) ==
    IF Len(s) > 0 /\ IsOpen(s[1]) /\ MatchEnd(s, 1) # 0
    THEN [found |-> TRUE, group |-> <<L>> \o SubSeq(s, 2, MatchEnd(s, 1))]
    ELSE [found |-> FALSE, group |-> <<>>]

re_search(s) ==
    LET starts == {i \in 1..Len(s) : IsOpen(s[i]) /\ MatchEnd(s, i) # 0}
    IN  IF starts = {} THEN [found |-> FALSE, group |-> <<>>]
        ELSE LET i == Min(starts)
             IN  [found |-> TRUE, group |-> <<L>> \o SubSeq(s, i + 1, MatchEnd(s, i))]

(***************************************************************************)
(* The parse block every stage repeats: direct parse, then the regular     *)
(* expression, then ValueError.  exc is the exception raised ("" if none). *)
(***************************************************************************)
\* mutant of ParseResponse: a reply that cannot be parsed counts as the
\* empty object
ParseResponseLenient(content) ==
    LET direct == json_loads(content)
        json_match == re_search(content)
        second == json_loads(json_match.group)
    IN  IF direct.ok THEN [exc |-> "", kind |-> direct.kind, obj |-> direct.obj]
        ELSE IF json_match.found /\ second.ok
        THEN [exc |-> "", kind |-> second.kind, obj |-> second.obj]
        ELSE [exc |-> "", kind |-> "dict", obj |-> <<L, R>>]

ParseResponse(content) ==
    LET direct == json_loads(content)
        json_match == re_search(content)
        second == json_loads(json_match.group)
    IN  IF direct.ok THEN [exc |-> "", kind |-> direct.kind, obj |-> direct.obj]
        ELSE IF json_match.found
        THEN IF second.ok
             THEN [exc |-> "", kind |-> second.kind, obj |-> second.obj]
             ELSE [exc |-> "JSONDecodeError", kind |-> "none", obj |-> <<>>]
        ELSE [exc |-> "ValueError", kind |-> "none", obj |-> <<>>]

(***************************************************************************)
(* Python values                                                           *)
(***************************************************************************)
PyNone == [t |-> "none", v |-> <<>>]
Unset == [t |-> "unset", v |-> <<>>]      \* the dict has no such key
PyStr(x) == [t |-> "str", v |-> <<x>>]
PyInt(x) == [t |-> "int", v |-> <<x>>]
PyList(xs) == [t |-> "list", v |-> xs]
PyEnum(x) == [t |-> "enum", v |-> <<x>>]

\* truth value of a Python value in `if x`
Truthy(val) ==
    CASE val.t \in {"none", "unset"} -> FALSE
      [] val.t = "int" -> val.v # <<"0">>
      [] val.t = "str" -> val.v # <<"">>
      [] val.t = "list" -> val.v # <<>>
      [] OTHER -> TRUE

\* the Python value of a JSON literal
JsonValue(lit) ==
    CASE lit = "null" -> PyNone
      [] lit = "[]" -> PyList(<<>>)
      [] lit = "[x]" -> PyList(<<"x">>)
      [] lit = "[y]" -> PyList(<<"y">>)
      [] lit = "[1]" -> [t |-> "intlist", v |-> <<"1">>]   \* a list of a number
      [] OTHER -> PyStr(lit)

(***************************************************************************)
(* dict operations on a parsed object (its members at nesting depth 1;     *)
(* a repeated key keeps its last value)                                    *)
(***************************************************************************)
Depth(obj, i) ==
    Cardinality({j \in 1..(i - 1) : IsOpen(obj[j])})
    - Cardinality({j \in 1..(i - 1) : IsClose(obj[j])})

KeyIdx(obj, f) ==
    {i \in 1..Len(obj) : obj[i][1] \in {"m", "k{"} /\ obj[i][2] = f /\ Depth(obj, i) = 1}

HasKey(obj, f) == KeyIdx(obj, f) # {}

\* result[f], defined when HasKey(obj, f)
DictItem(obj, f) ==
    LET i == Max(KeyIdx(obj, f))
    IN  IF obj[i][1] = "m" THEN JsonValue(obj[i][3]) ELSE [t |-> "dict", v |-> <<>>]

\* result.get(f, default)
DictGet(obj, f, default) == IF HasKey(obj, f) THEN DictItem(obj, f) ELSE default

(***************************************************************************)
(* UrgencyLevel(str, Enum)                                                 *)
(***************************************************************************)
UrgencyLevel == {"emergency", "urgent", "routine", "non-urgent"}

EnumName(x) ==
    CASE x = "emergency" -> "UrgencyLevel.EMERGENCY"
      [] x = "urgent" -> "UrgencyLevel.URGENT"
      [] x = "routine" -> "UrgencyLevel.ROUTINE"
      [] x = "non-urgent" -> "UrgencyLevel.NON_URGENT"
      [] OTHER -> "?"

\* UrgencyLevel(value) succeeds
IsUrgencyValue(val) == val.t = "str" /\ val.v[1] \in UrgencyLevel

(***************************************************************************)
(* SymptomState and the request                                            *)
(***************************************************************************)
InputFields ==
    {"symptoms", "age", "sex", "duration", "existing_conditions", "current_medications"}
DerivedFields ==
    {"extracted_symptoms", "urgency_assessment", "urgency_level", "red_flags",
     "recommended_specialist", "reasoning", "suggested_preparations",
     "suggested_tests", "home_care_tips"}
Fields == InputFields \cup DerivedFields

NoState == [f \in Fields |-> Unset]

\* SymptomRouteRequest bodies the model tries
SymptomRouteRequests ==
    { [symptoms |-> PyStr("persistent cough with mild fever"), age |-> PyInt("35"),
       sex |-> PyStr("female"), duration |-> PyStr("2 weeks"),
       existing_conditions |-> PyList(<<"asthma">>),
       current_medications |-> PyList(<<"albuterol">>)],
      [symptoms |-> PyStr("persistent cough with mild fever"), age |-> PyNone,
       sex |-> PyNone, duration |-> PyNone,
       existing_conditions |-> PyNone, current_medications |-> PyNone],
      [symptoms |-> PyStr("newborn will not stop crying"), age |-> PyInt("0"),
       sex |-> PyStr("male"), duration |-> PyNone,
       existing_conditions |-> PyList(<<>>), current_medications |-> PyList(<<>>)] }

\* x or []
OrEmptyList(val) == IF Truthy(val) THEN val ELSE PyList(<<>>)

\* initial_state of route_symptoms
InitialState(req) ==
    [f \in Fields |->
        CASE f \in {"symptoms", "age", "sex", "duration"} -> req[f]
          [] f \in {"existing_conditions", "current_medications"} -> OrEmptyList(req[f])
          [] OTHER -> Unset]

(***************************************************************************)
(* Building the user message of a stage.  A message is modelled by what it *)
(* says about each field of the state: the field's text when the message   *)
(* holds it, or that it is left out.                                       *)
(***************************************************************************)
Inc(txt) == [inc |-> TRUE, txt |-> txt]
Omit == [inc |-> FALSE, txt |-> <<>>]

\* f"{val}": a str-mixin Enum member prints as its value up to Python 3.10
\* and as ClassName.MEMBER from Python 3.11 on
Format(val) ==
    CASE val.t \in {"str", "int"} -> val.v
      [] val.t = "none" -> <<"None">>
      [] val.t = "enum" -> IF pyfmt = "value" THEN val.v ELSE <<EnumName(val.v[1])>>
      [] OTHER -> <<"repr">> \o val.v

\* ", ".join(val) is defined for a list of strings and for a string (whose
\* characters it joins); a list item that is no string raises TypeError
CanJoin(val) == val.t \in {"list", "str"}
Join(val) == IF val.t = "list" THEN val.v ELSE <<"chars">> \o val.v

\* state.get(f, default)
StateGet(state, f, default) == IF state[f].t = "unset" THEN default ELSE state[f]

PatientFields == {"age", "sex", "existing_conditions", "current_medications"}

\* _build_patient_context: what the context block says about field f
PatientContext(state, f) ==
    CASE f \in {"age", "sex"} ->
            IF Truthy(StateGet(state, f, PyNone)) THEN Inc(Format(state[f])) ELSE Omit
      [] f \in {"existing_conditions", "current_medications"} ->
            IF Truthy(StateGet(state, f, PyNone)) THEN Inc(Join(state[f])) ELSE Omit
      [] OTHER -> Omit

\* user_message of _extract_symptoms
ExtractMessage(state) ==
    [f \in Fields |->
        CASE f \in PatientFields -> PatientContext(state, f)
          [] f = "symptoms" -> Inc(Format(state["symptoms"]))
          [] OTHER -> Omit]

\* user_message of _assess_urgency
AssessMessage(state) ==
    [f \in Fields |->
        CASE f \in PatientFields -> PatientContext(state, f)
          [] f = "extracted_symptoms" -> Inc(Join(state["extracted_symptoms"]))
          [] f = "duration" ->
                Inc(Format(StateGet(state, "duration", PyStr("not specified"))))
          [] OTHER -> Omit]

\* mutant of RouteMessage: the Urgency line is missing
RouteMessageNoUrgency(state) ==
    [f \in Fields |->
        CASE f \in PatientFields -> PatientContext(state, f)
          [] f = "extracted_symptoms" -> Inc(Join(state["extracted_symptoms"]))
          [] f = "red_flags" ->
                IF Truthy(state["red_flags"]) THEN Inc(Join(state["red_flags"])) ELSE Omit
          [] OTHER -> Omit]

\* user_message of _route_specialist
RouteMessage(state) ==
    [f \in Fields |->
        CASE f \in PatientFields -> PatientContext(state, f)
          [] f = "extracted_symptoms" -> Inc(Join(state["extracted_symptoms"]))
          [] f = "urgency_level" -> Inc(Format(state["urgency_level"]))
          [] f = "red_flags" ->
                IF Truthy(state["red_flags"]) THEN Inc(Join(state["red_flags"])) ELSE Omit
          [] OTHER -> Omit]

\* mutant of RecommendMessage: the Specialist line is missing
RecommendMessageNoSpecialist(state) ==
    [f \in Fields |->
        CASE f \in PatientFields -> PatientContext(state, f)
          [] f = "extracted_symptoms" -> Inc(Join(state["extracted_symptoms"]))
          [] f = "urgency_level" -> Inc(Format(state["urgency_level"]))
          [] OTHER -> Omit]

\* user_message of _generate_recommendations
RecommendMessage(state) ==
    [f \in Fields |->
        CASE f \in PatientFields -> PatientContext(state, f)
          [] f = "extracted_symptoms" -> Inc(Join(state["extracted_symptoms"]))
          [] f = "recommended_specialist" -> Inc(Format(state["recommended_specialist"]))
          [] f = "urgency_level" -> Inc(Format(state["urgency_level"]))
          [] OTHER -> Omit]

UserMessage(n, state) ==
    CASE n = "extract_symptoms" -> ExtractMessage(state)
      [] n = "assess_urgency" -> AssessMessage(state)
      [] n = "route_specialist" -> RouteMessage(state)
      [] n = "generate_recommendations" -> RecommendMessage(state)

\* the message can be built without a TypeError from str.join
CanBuildMessage(n, state) ==
    /\ n # "extract_symptoms" => CanJoin(state["extracted_symptoms"])
    /\ n = "route_specialist" /\ Truthy(state["red_flags"]) => CanJoin(state["red_flags"])

(***************************************************************************)
(* What each node does with the reply: parse it, then assign its fields in *)
(* the order of the code.  The result is the exception raised ("" if none) *)
(* and the state dict as the assignments made before it left it.           *)
(***************************************************************************)
\* str(e) of the exceptions whose text is fixed by the code or the library
\* (json's message says what it expected and where, and holds no text of
\* the document); the text of the others never leaves the server and is
\* kept as their name
StrOf(e) ==
    CASE e = "ValueError" -> <<"Failed to parse", "response">>   \* names the stage in between
      [] e = "JSONDecodeError" -> <<"Expecting value">>
      [] OTHER -> <<e>>

RaiseWith(e, msg, state) == [exc |-> e, msg |-> msg, state |-> state]
Raise(e, state) == RaiseWith(e, StrOf(e), state)
Return(state) == [exc |-> "", msg |-> <<>>, state |-> state]

\* str(e) of the ValueError of UrgencyLevel(x) for an x that is no member
NotAMember(val) == <<"'">> \o val.v \o <<"' is not a valid UrgencyLevel">>

\* len(x) is defined
HasLen(val) == val.t \in {"list", "intlist", "str", "dict"}

\* mutant of ExtractReply: the node also rewrites the symptoms text with the
\* list it extracted
ExtractReplyRewrite(state, content) ==
    LET p == ParseResponse(content)
        s1 == [state EXCEPT !["extracted_symptoms"] =
                   DictGet(p.obj, "extracted_symptoms", PyList(<<>>))]
        s2 == [s1 EXCEPT !["symptoms"] = s1["extracted_symptoms"]]
    IN  IF p.exc # "" THEN Raise(p.exc, state)
        ELSE IF p.kind # "dict" THEN Raise("AttributeError", state)
        ELSE IF ~HasLen(s1["extracted_symptoms"]) THEN Raise("TypeError", s1)
        ELSE Return(s2)

\* mutant of ExtractReply: extracted_symptoms is read without the [] default
ExtractReplyNoDefault(state, content) ==
    LET p == ParseResponse(content)
        s1 == [state EXCEPT !["extracted_symptoms"] =
                   DictGet(p.obj, "extracted_symptoms", PyNone)]
    IN  IF p.exc # "" THEN Raise(p.exc, state)
        ELSE IF p.kind # "dict" THEN Raise("AttributeError", state)
        ELSE IF ~HasKey(p.obj, "extracted_symptoms") THEN Raise("KeyError", state)
        ELSE IF ~HasLen(s1["extracted_symptoms"]) THEN Raise("TypeError", s1)
        ELSE Return(s1)

\* _extract_symptoms after the await
ExtractReply(state, content) ==
    LET p == ParseResponse(content)
        s1 == [state EXCEPT !["extracted_symptoms"] =
                   DictGet(p.obj, "extracted_symptoms", PyList(<<>>))]
    IN  IF p.exc # "" THEN Raise(p.exc, state)
        ELSE IF p.kind # "dict" THEN Raise("AttributeError", state)
        ELSE IF ~HasLen(s1["extracted_symptoms"]) THEN Raise("TypeError", s1)
        ELSE Return(s1)

\* mutant of AssessReply: red_flags is read without the [] default
AssessReplyNoDefault(state, content) ==
    LET p == ParseResponse(content)
        s1 == [state EXCEPT !["urgency_level"] =
                   PyEnum(DictItem(p.obj, "urgency_level").v[1])]
        s2 == [s1 EXCEPT !["urgency_assessment"] = DictItem(p.obj, "urgency_assessment")]
        s3 == [s2 EXCEPT !["red_flags"] = DictGet(p.obj, "red_flags", PyNone)]
    IN  IF p.exc # "" THEN Raise(p.exc, state)
        ELSE IF p.kind # "dict" THEN Raise("TypeError", state)
        ELSE IF ~HasKey(p.obj, "urgency_level") THEN Raise("KeyError", state)
        ELSE IF ~IsUrgencyValue(DictItem(p.obj, "urgency_level"))
             THEN RaiseWith("ValueError", NotAMember(DictItem(p.obj, "urgency_level")), state)
        ELSE IF ~HasKey(p.obj, "urgency_assessment") THEN Raise("KeyError", s1)
        ELSE Return(s3)

\* _assess_urgency after the await
AssessReply(state, content) ==
    LET p == ParseResponse(content)
        s1 == [state EXCEPT !["urgency_level"] =
                   PyEnum(DictItem(p.obj, "urgency_level").v[1])]
        s2 == [s1 EXCEPT !["urgency_assessment"] = DictItem(p.obj, "urgency_assessment")]
        s3 == [s2 EXCEPT !["red_flags"] = DictGet(p.obj, "red_flags", PyList(<<>>))]
    IN  IF p.exc # "" THEN Raise(p.exc, state)
        ELSE IF p.kind # "dict" THEN Raise("TypeError", state)
        ELSE IF ~HasKey(p.obj, "urgency_level") THEN Raise("KeyError", state)
        ELSE IF ~IsUrgencyValue(DictItem(p.obj, "urgency_level"))
             THEN RaiseWith("ValueError", NotAMember(DictItem(p.obj, "urgency_level")), state)
        ELSE IF ~HasKey(p.obj, "urgency_assessment") THEN Raise("KeyError", s1)
        ELSE Return(s3)

\* mutant of RouteReply: a missing recommended_specialist gets a default
RouteReplyDefault(state, content) ==
    LET p == ParseResponse(content)
        s1 == [state EXCEPT !["recommended_specialist"] =
                   DictGet(p.obj, "recommended_specialist", PyStr("General Practitioner"))]
        s2 == [s1 EXCEPT !["reasoning"] = DictItem(p.obj, "reasoning")]
    IN  IF p.exc # "" THEN Raise(p.exc, state)
        ELSE IF p.kind # "dict" THEN Raise("TypeError", state)
        ELSE IF ~HasKey(p.obj, "reasoning") THEN Raise("KeyError", s1)
        ELSE Return(s2)

\* _route_specialist after the await
RouteReply(state, content) ==
    LET p == ParseResponse(content)
        s1 == [state EXCEPT !["recommended_specialist"] =
                   DictItem(p.obj, "recommended_specialist")]
        s2 == [s1 EXCEPT !["reasoning"] = DictItem(p.obj, "reasoning")]
    IN  IF p.exc # "" THEN Raise(p.exc, state)
        ELSE IF p.kind # "dict" THEN Raise("TypeError", state)
        ELSE IF ~HasKey(p.obj, "recommended_specialist") THEN Raise("KeyError", state)
        ELSE IF ~HasKey(p.obj, "reasoning") THEN Raise("KeyError", s1)
        ELSE Return(s2)

\* mutant of RecommendReply: the node also resets red_flags
RecommendReplyClobber(state, content) ==
    LET p == ParseResponse(content)
        s1 == [state EXCEPT
                 !["red_flags"] = PyList(<<>>),
                 !["suggested_preparations"] =
                     DictGet(p.obj, "suggested_preparations", PyList(<<>>)),
                 !["suggested_tests"] = DictGet(p.obj, "suggested_tests", PyList(<<>>)),
                 !["home_care_tips"] = DictGet(p.obj, "home_care_tips", PyList(<<>>))]
    IN  IF p.exc # "" THEN Raise(p.exc, state)
        ELSE IF p.kind # "dict" THEN Raise("AttributeError", state)
        ELSE Return(s1)

\* _generate_recommendations after the await
RecommendReply(state, content) ==
    LET p == ParseResponse(content)
        s1 == [state EXCEPT
                 !["suggested_preparations"] =
                     DictGet(p.obj, "suggested_preparations", PyList(<<>>)),
                 !["suggested_tests"] = DictGet(p.obj, "suggested_tests", PyList(<<>>)),
                 !["home_care_tips"] = DictGet(p.obj, "home_care_tips", PyList(<<>>))]
    IN  IF p.exc # "" THEN Raise(p.exc, state)
        ELSE IF p.kind # "dict" THEN Raise("AttributeError", state)
        ELSE Return(s1)

NodeReply(n, state, content) ==
    CASE n = "extract_symptoms" -> ExtractReply(state, content)
      [] n = "assess_urgency" -> AssessReply(state, content)
      [] n = "route_specialist" -> RouteReply(state, content)
      [] n = "generate_recommendations" -> RecommendReply(state, content)

(***************************************************************************)
(* The compiled graph                                                      *)
(***************************************************************************)
END == "__end__"
Nodes ==
    {"extract_symptoms", "assess_urgency", "route_specialist", "generate_recommendations"}
EntryPoint == "extract_symptoms"
\* mutant of Edges: the two middle nodes are wired in the other order
EdgesSwapped ==
    { <<"extract_symptoms", "route_specialist">>,
      <<"route_specialist", "assess_urgency">>,
      <<"assess_urgency", "generate_recommendations">>,
      <<"generate_recommendations", END>> }
\* mutant of Edges: the graph ends after route_specialist
EdgesEarlyEnd ==
    { <<"extract_symptoms", "assess_urgency">>,
      <<"assess_urgency", "route_specialist">>,
      <<"route_specialist", END>>,
      <<"generate_recommendations", END>> }
Edges ==
    { <<"extract_symptoms", "assess_urgency">>,
      <<"assess_urgency", "route_specialist">>,
      <<"route_specialist", "generate_recommendations">>,
      <<"generate_recommendations", END>> }

NextNode(n) == (CHOOSE e \in Edges : e[1] = n)[2]

\* mutant of AfterNode: a node's exception is swallowed and the run goes on
AfterNodeSwallow(n, exc) ==
    IF NextNode(n) = END THEN [pc |-> "done", node |-> END]
    ELSE [pc |-> "node", node |-> NextNode(n)]
\* mutant of AfterNode: a node that raised is run again
AfterNodeRetry(n, exc) ==
    IF exc # "" THEN [pc |-> "node", node |-> n]
    ELSE IF NextNode(n) = END THEN [pc |-> "done", node |-> END]
    ELSE [pc |-> "node", node |-> NextNode(n)]

\* Where the run goes when node n has ended with exception exc ("" if it
\* returned): along the node's edge, or out of workflow.ainvoke and run()
\* with the exception, which nothing in between catches.
AfterNode(n, exc) ==
    IF exc # "" THEN [pc |-> "raised", node |-> n]
    ELSE IF NextNode(n) = END THEN [pc |-> "done", node |-> END]
    ELSE [pc |-> "node", node |-> NextNode(n)]

(***************************************************************************)
(* route_symptoms: the response                                            *)
(***************************************************************************)
ResponseFields ==
    {"recommended_specialist", "urgency_level", "reasoning", "red_flags",
     "suggested_preparations", "suggested_tests", "home_care_tips"}

NoBody == [f \in ResponseFields |-> Unset]
NoResponse == [status |-> 0, body |-> NoBody, detail |-> <<>>]

\* the detail of the HTTPException of the generic handler
GenericDetail == <<"Failed to process symptoms. Please try again.">>

\* exceptions that are ValueError or a subclass of it (json.JSONDecodeError,
\* pydantic's ValidationError)
ValueErrors == {"ValueError", "JSONDecodeError", "ValidationError"}

\* SymptomRouteResponse(...) validates: str, UrgencyLevel, List[str] and
\* Optional[List[str]] fields
ValidResponse(result) ==
    /\ result["recommended_specialist"].t = "str"
    /\ result["urgency_level"].t = "enum"
    /\ result["reasoning"].t = "str"
    /\ result["red_flags"].t = "list"
    /\ result["suggested_preparations"].t = "list"
    /\ result["suggested_tests"].t \in {"list", "none"}
    /\ result["home_care_tips"].t \in {"list", "none"}

\* the fields SymptomRouteResponse(...) rejects
InvalidFields(result) ==
    {f \in ResponseFields :
        CASE f \in {"recommended_specialist", "reasoning"} -> result[f].t # "str"
          [] f = "urgency_level" -> result[f].t # "enum"
          [] f \in {"red_flags", "suggested_preparations"} -> result[f].t # "list"
          [] OTHER -> result[f].t \notin {"list", "none"}}

\* the concatenation of the sequences sq[f] for f in S, in some fixed order
RECURSIVE Flatten(_, _)
Flatten(S, sq) ==
    IF S = {} THEN <<>>
    ELSE LET f == CHOOSE x \in S : TRUE IN sq[f] \o Flatten(S \ {f}, sq)

\* str(e) of pydantic's ValidationError: a heading and, for each rejected
\* field, its name, what was expected and input_value=<the value given>
ValidationText(result) ==
    <<"validation error for SymptomRouteResponse">>
    \o Flatten(InvalidFields(result),
                [f \in ResponseFields |-> <<f, "input_value=">> \o result[f].v])

\* mutant of RouteResponse: suggested_tests is filled from
\* suggested_preparations
RouteResponseMixed(at, result, exc, msg) ==
    IF at = "done"
    THEN IF ValidResponse(result)
         THEN [status |-> 200,
               body |-> [f \in ResponseFields |->
                            IF f = "suggested_tests" THEN result["suggested_preparations"]
                                                     ELSE result[f]],
               detail |-> <<>>]
         ELSE [status |-> 400, body |-> NoBody, detail |-> ValidationText(result)]
    ELSE IF exc \in ValueErrors
         THEN [status |-> 400, body |-> NoBody, detail |-> msg]
         ELSE [status |-> 500, body |-> NoBody, detail |-> GenericDetail]

\* the response of route_symptoms, given how run() ended with exception exc
\* whose text is msg
RouteResponse(at, result, exc, msg) ==
    IF at = "done"
    THEN IF ValidResponse(result)
         THEN [status |-> 200, body |-> [f \in ResponseFields |-> result[f]],
               detail |-> <<>>]
         ELSE [status |-> 400, body |-> NoBody, detail |-> ValidationText(result)]
    ELSE IF exc \in ValueErrors
         THEN [status |-> 400, body |-> NoBody, detail |-> msg]
         ELSE [status |-> 500, body |-> NoBody, detail |-> GenericDetail]

(***************************************************************************)
(* Replies of the reasoning service the model tries, per node: the node's  *)
(* JSON object with each member present or absent, alone or wrapped in     *)
(* prose, and three bodies that hold no object                             *)
(***************************************************************************)
Opt(f, lits) == {<<>>} \cup {<<M(f, lit)>> : lit \in lits}

ReplyObjects(n) ==
    CASE n = "extract_symptoms" ->
            {<<L>> \o a \o <<R>> : a \in Opt("extracted_symptoms", {"[]", "[x]", "[1]", "null", "cough"})}
      [] n = "assess_urgency" ->
            {<<L>> \o a \o b \o c \o <<R>> :
                a \in Opt("urgency_level", {"urgent", "emergency", "bogus"}),
                b \in Opt("urgency_assessment", {"see a doctor today"}),
                c \in Opt("red_flags", {"[x]", "[1]", "null"})}
      [] n = "route_specialist" ->
            {<<L>> \o a \o b \o <<R>> :
                a \in Opt("recommended_specialist", {"Pulmonologist", "null"}),
                b \in Opt("reasoning", {"respiratory infection"})}
      [] n = "generate_recommendations" ->
            {<<L>> \o a \o b \o c \o <<R>> :
                a \in Opt("suggested_preparations", {"[x]"}),
                b \in Opt("suggested_tests", {"[y]", "null"}),
                c \in Opt("home_care_tips", {"[x]"})}
      [] OTHER -> {}

ReplyBodies(n) ==
    IF n \notin Nodes THEN {}
    ELSE ReplyObjects(n)
         \cup {<<N>> \o o \o <<N>> : o \in ReplyObjects(n)}
         \cup {<<N>>, <<V>>, <<N, L, N, R>>}

NoMessage == [f \in Fields |-> Omit]
NoParse == [exc |-> "", kind |-> "none", obj |-> <<>>]

(***************************************************************************)
(* Two requests served at the same time by the one event loop.  Both       *)
(* handlers obtain the module's singleton and call run() on it; control    *)
(* passes from one to the other only at an await of the service call.      *)
(***************************************************************************)
RunIds == {"r1", "r2"}

\* mutant of Channel: the state is kept on the shared instance
ChannelShared(r) == "r1"
\* self.workflow.ainvoke(state): every call of the compiled graph works on
\* state channels of its own, filled from the state it was called with
Channel(r) == r

NoRun ==
    [pc |-> "idle", node |-> "", err |-> "", errmsg |-> <<>>, init |-> NoState,
     msgs |-> [n \in Nodes |-> NoMessage], evs |-> <<>>, resp |-> NoResponse]

\* the type of every field of a state (unset for a key it lacks)
Shape(state) == [f \in Fields |-> state[f].t]
NoShape == [f \in Fields |-> ""]

\* no request is being served concurrently
ConcIdle ==
    /\ instance = "None"
    /\ crun = [r \in RunIds |-> NoRun]
    /\ cstate = [c \in RunIds |-> NoState]

\* what a service call ended with: a reply body, or an exception
ReplyEvent(content) == [kind |-> "reply", content |-> content]
ErrorEvent == [kind |-> "error", content |-> <<>>]

(***************************************************************************)
(* Accounts: the users table and the handlers of /api/auth.  Two handlers  *)
(* (worker processes on one database) serve requests at the same time;     *)
(* each statement that reaches the database is a step.                     *)
(***************************************************************************)
Handlers == {"h1", "h2"}
Emails == {"a@example.com", "b@example.com"}
Usernames == {"alice", "bob"}
Passwords == {"SecurePass123!", "wrongpassword"}

\* the refresh_token of a request that carries none
NoToken == [type |-> "", user_id |-> 0, n |-> 0, signed |-> FALSE]

NoRequest ==
    [op |-> "", pc |-> "idle", email |-> "", username |-> "", password |-> "",
     status |-> 0, detail |-> "", tokens |-> FALSE, user |-> 0, link |-> 0,
     refresh_token |-> NoToken]

\* no account exists and no request was received
AuthIdle ==
    /\ users = <<>>
    /\ hreq = [h \in Handlers |-> NoRequest]
    /\ issued = {}
    /\ jwts = {}
    /\ past = {}
    /\ served = 0

\* get_password_hash / verify_password: a bcrypt hash with a salt drawn at
\* each call (here: one salt per handler), so that two hashes of one
\* password differ and both verify
GetPasswordHash(password, salt) == <<"$2b$", salt, password>>
VerifyPassword(password, hashed) == hashed[1] = "$2b$" /\ hashed[3] = password

\* db.query(User).filter(User.email == email).first(): the id, 0 for None
ByEmail(us, email) ==
    IF \E i \in 1..Len(us) : us[i].email = email
    THEN Min({i \in 1..Len(us) : us[i].email = email}) ELSE 0
ByUsername(us, username) ==
    IF \E i \in 1..Len(us) : us[i].username = username
    THEN Min({i \in 1..Len(us) : us[i].username = username}) ELSE 0

\* mutant of UniqueOk: the table has no unique constraints
UniqueOkNone(us, new) == TRUE
\* the unique constraints of users.email and users.username admit the row
UniqueOk(us, new) ==
    \A i \in 1..Len(us) : us[i].email # new.email /\ us[i].username # new.username

\* authenticate_user(db, email, password): the id of the user with that
\* email whose password verifies, whether active or not; 0 for None
AuthenticateUser(us, email, password) ==
    LET u == ByEmail(us, email)
    IN  IF u # 0 /\ VerifyPassword(password, us[u].hashed_password) THEN u ELSE 0

\* db.query(User).filter(User.id == user_id).first(): the id, 0 for None
ById(us, user_id) == IF user_id \in 1..Len(us) THEN user_id ELSE 0

\* An expiry instant: that of the access or refresh token, or of the reset
\* token, created by request number n.  Time passes by instants moving into
\* the past, each at some point of its own.
Instant(kind, n) == [kind |-> kind, n |-> n]

\* create_access_token / create_refresh_token({"user_id", "email"}): a JWT
\* signed with the secret key, of the given type, expiring at its instant
Jwt(type, user_id, n) == [type |-> type, user_id |-> user_id, n |-> n, signed |-> TRUE]
CreateTokens(user_id, n) == {Jwt("access", user_id, n), Jwt("refresh", user_id, n)}

\* a token that was not signed with the secret key
Forged == [type |-> "refresh", user_id |-> 1, n |-> 0, signed |-> FALSE]

\* verify_token(token, token_type) returns the token data: the signature
\* is valid, the token has not expired and its type is token_type;
\* otherwise it raises HTTPException 401
VerifyToken(token, token_type) ==
    /\ token.signed
    /\ Instant(token.type, token.n) \notin past
    /\ token.type = token_type

\* mutant of RefreshUserOk: a deactivated user passes
RefreshUserOkInactive(us, user_id) == ById(us, user_id) # 0
\* refresh_token: not (not user or not user.is_active)
RefreshUserOk(us, user_id) == ById(us, user_id) # 0 /\ us[ById(us, user_id)].is_active

\* the query of reset_password without its condition on reset_token_expires
ByResetTokenAnyTime(us, token) ==
    LET found == {i \in 1..Len(us) : us[i].reset_token = token}
    IN  IF found = {} THEN 0 ELSE Min(found)

\* the user the query of reset_password finds: reset_token is the token
\* and reset_token_expires is later than now; 0 for None
ByResetToken(us, token) ==
    LET found == {i \in 1..Len(us) :
                     /\ us[i].reset_token = token
                     /\ us[i].reset_token_expires # 0
                     /\ Instant("reset", us[i].reset_token_expires) \notin past}
    IN  IF found = {} THEN 0 ELSE Min(found)

\* reset_password's update of the user found, keeping the reset token
UpdatePasswordKeepToken(user, hashed) ==
    [user EXCEPT !.hashed_password = hashed]

\* reset_password's update of the user found: the new hash, and the reset
\* token and its expiry set to None
UpdatePassword(user, hashed) ==
    [user EXCEPT !.hashed_password = hashed,
                 !.reset_token = 0,
                 !.reset_token_expires = 0]

\* the message of both answers of forgot_password
ResetMessage == "If an account with that email exists, a password reset link has been sent."

(***************************************************************************)
(* Doctor finder (app/services/doctor_finder.py and                        *)
(* app/services/external_doctor_api.py).  A ZIP code is a sequence of      *)
(* one-character strings; "sup2" stands for the superscript two, a         *)
(* character str.isdigit accepts and int() rejects.  A registry result is  *)
(* the normalised dict of one doctor, reduced to its name, the distance    *)
(* calculate_distance gives for it (rounded) and whether Doctor(...)       *)
(* accepts its values.                                                     *)
(***************************************************************************)
MaxZipLen == 3
MaxResults == 3
MaxLimit == 2
ApiMaxLimit == 200

ZipChars == {"0", "1", "7", "9", "X", "sup2"}

\* c.isdigit() of a one-character string
IsDigit(c) == c \in {"0", "1", "7", "9", "sup2"}

\* int(c) does not raise
IsDecimal(c) == c \in {"0", "1", "7", "9"}

\* int(c) of a decimal digit
DigitValue(c) ==
    CASE c = "0" -> 0
      [] c = "1" -> 1
      [] c = "7" -> 7
      [] c = "9" -> 9

\* zip_to_state of _guess_state_from_zip, in its order
ZipToState ==
    << <<0, 6, "PR">>, <<7, 9, "NJ">>, <<10, 14, "NY">>, <<15, 19, "PA">>,
       <<20, 20, "DC">>, <<21, 21, "MD">>, <<22, 24, "VA">>, <<25, 27, "NC">>,
       <<28, 29, "SC">>, <<30, 31, "GA">>, <<32, 34, "FL">>, <<35, 36, "AL">>,
       <<37, 38, "TN">>, <<39, 39, "MS">>, <<40, 42, "KY">>, <<43, 45, "OH">>,
       <<46, 47, "IN">>, <<48, 49, "MI">>, <<50, 51, "IA">>, <<52, 52, "SD">>,
       <<53, 54, "WI">>, <<55, 56, "MN">>, <<57, 57, "SD">>, <<58, 59, "ND">>,
       <<60, 62, "IL">>, <<63, 64, "MO">>, <<65, 65, "MT">>, <<66, 67, "KS">>,
       <<68, 69, "NE">>, <<70, 71, "LA">>, <<72, 74, "AR">>, <<75, 79, "TX">>,
       <<80, 81, "CO">>, <<82, 82, "WY">>, <<83, 83, "ID">>, <<84, 84, "UT">>,
       <<85, 86, "AZ">>, <<87, 88, "NM">>, <<89, 89, "NV">>, <<90, 96, "CA">>,
       <<97, 97, "OR">>, <<98, 99, "WA">> >>

\* the loop over zip_to_state and the fallback after it
StateOfPrefix(prefix) ==
    LET hits == {i \in 1..Len(ZipToState) :
                    ZipToState[i][1] <= prefix /\ prefix <= ZipToState[i][2]}
    IN  IF hits = {} THEN "CA" ELSE ZipToState[Min(hits)][3]

\* _guess_state_from_zip(zip_code); "ValueError" when int() raises
GuessStateFromZip(zip_code) ==
    IF Len(zip_code) < 2 THEN "CA"
    ELSE IF IsDigit(zip_code[1]) /\ IsDigit(zip_code[2])
    THEN IF IsDecimal(zip_code[1]) /\ IsDecimal(zip_code[2])
         THEN StateOfPrefix(10 * DigitValue(zip_code[1]) + DigitValue(zip_code[2]))
         ELSE "ValueError"
    ELSE StateOfPrefix(0)

\* the ZIP codes _guess_state_from_zip is tried on
RECURSIVE ZipsOfLen(_)
ZipsOfLen(n) ==
    IF n = 0 THEN {<<>>}
    ELSE {Append(z, c) : z \in ZipsOfLen(n - 1), c \in ZipChars}
Zips == UNION {ZipsOfLen(n) : n \in 0..MaxZipLen}

\* ''.join(filter(str.isdigit, postal_code))[:5]
CleanZip(postal_code) ==
    LET digits == SelectSeq(postal_code, IsDigit)
    IN  SubSeq(digits, 1, Min({5, Len(digits)}))

\* names of doctors, in the order of str comparison
DoctorNames == <<"Dr. Ann Lee", "Dr. Bo Kim">>
NameRank(name) == CHOOSE i \in 1..Len(DoctorNames) : DoctorNames[i] = name

\* round(actual_distance, 2) of the results tried: in the ZIP area of the
\* search, or in another one
Distances == {0, 12}

\* the normalised dicts the registry call may return
DoctorData ==
    [name : {DoctorNames[i] : i \in 1..Len(DoctorNames)},
     distance_km : Distances,
     valid : BOOLEAN]
RECURSIVE ResultsOfLen(_)
ResultsOfLen(n) ==
    IF n = 0 THEN {<<>>}
    ELSE {Append(r, d) : r \in ResultsOfLen(n - 1), d \in DoctorData}
RegistryResults == UNION {ResultsOfLen(n) : n \in 0..MaxResults}

\* the loop of _search_with_external_api: Doctor(...) of each result, a
\* result that raises is skipped
IsValid(doc_data) == doc_data.valid
ToDoctor(doc_data) == [name |-> doc_data.name, distance_km |-> doc_data.distance_km]
ConvertResults(api_results) ==
    LET ok == SelectSeq(api_results, IsValid)
    IN  [i \in 1..Len(ok) |-> ToDoctor(ok[i])]

\* the order of the key (d.distance_km) alone
DoctorKeyLeByDistance(a, b) == a.distance_km <= b.distance_km

\* (a.distance_km, a.name) <= (b.distance_km, b.name)
DoctorKeyLe(a, b) ==
    \/ a.distance_km < b.distance_km
    \/ a.distance_km = b.distance_km /\ NameRank(a.name) <= NameRank(b.name)

\* doctors.sort(key=lambda d: (d.distance_km, d.name)): a stable sort,
\* computed by insertion after the elements that do not sort after d
InsertDoctor(sorted, d) ==
    LET n == Cardinality({i \in 1..Len(sorted) : DoctorKeyLe(sorted[i], d)})
    IN  SubSeq(sorted, 1, n) \o <<d>> \o SubSeq(sorted, n + 1, Len(sorted))
RECURSIVE SortDoctors(_)
SortDoctors(doctors) ==
    IF doctors = <<>> THEN <<>>
    ELSE InsertDoctor(SortDoctors(SubSeq(doctors, 1, Len(doctors) - 1)),
                      doctors[Len(doctors)])

\* doctors[:limit]
LimitedDoctors(doctors, limit) == SubSeq(doctors, 1, Min({limit, Len(doctors)}))

\* _search_with_external_api after the registry call returned api_results
SearchWithExternalApi(api_results, limit) ==
    IF api_results = <<>> THEN <<>>
    ELSE LimitedDoctors(SortDoctors(ConvertResults(api_results)), limit)

\* the pincodes searched with: two ZIP codes and a text of five characters
\* with fewer than five digits
Pincodes ==
    {<<"9", "0", "0", "0", "1">>, <<"1", "0", "0", "0", "1">>, <<"X", "X", "9", "0", "0">>}

NoSearch ==
    [pc |-> "idle", pincode |-> <<>>, limit |-> 0, requests |-> <<>>, outcome |-> "",
     api_results |-> <<>>, status |-> 0, total_doctors_found |-> 0, doctors |-> <<>>]
NoGuess == [called |-> FALSE, zip_code |-> <<>>, state |-> ""]

\* no search was received and _guess_state_from_zip was not called
DoctorIdle ==
    /\ doc = NoSearch
    /\ guess = NoGuess

(***************************************************************************)
(* Health history (app/api/routes/history.py): the four tables of records  *)
(* and the routes that create, list, read, update and delete them for the  *)
(* authenticated caller.  A row is reduced to its id, its user_id, and,    *)
(* for a favourite doctor, its doctor_id and notes.                        *)
(***************************************************************************)
MaxRecords == 1

\* report_history, symptom_history, imaging_history, favorite_doctors
Tables == {"reports", "symptoms", "imaging", "favorites"}

\* the users get_current_user resolves the callers' tokens to
Callers == {1, 2}

\* doctor_id and notes of the requests tried
DoctorIds == {"1234567890"}
Notes == {"", "call before visit"}

\* the id the database gives a new row of the table
NewId(rows) == IF rows = <<>> THEN 1 ELSE Max({rows[i].id : i \in 1..Len(rows)}) + 1

\* the query of a route by id, without its condition on user_id
FindByIdAnyUser(rows, id, user_id) ==
    LET found == {i \in 1..Len(rows) : rows[i].id = id}
    IN  IF found = {} THEN 0 ELSE Min(found)

\* db.query(T).filter(T.id == id, T.user_id == current_user.id).first():
\* the position of the row, 0 for None
FindById(rows, id, user_id) ==
    LET found == {i \in 1..Len(rows) : rows[i].id = id /\ rows[i].user_id = user_id}
    IN  IF found = {} THEN 0 ELSE Min(found)

\* db.query(T).filter(T.user_id == current_user.id)
\*   .order_by(T.created_at.desc()).all()
OfUser(row, user_id) == row.user_id = user_id
ListOf(rows, user_id) ==
    LET own == {i \in 1..Len(rows) : OfUser(rows[i], user_id)}
        F[i \in 0..Len(rows)] ==
            IF i = 0 THEN <<>>
            ELSE IF i \in own THEN <<rows[i]>> \o F[i - 1] ELSE F[i - 1]
    IN  F[Len(rows)]

\* db.delete(row)
Remove(rows, k) == SubSeq(rows, 1, k - 1) \o SubSeq(rows, k + 1, Len(rows))

NoHistoryRequest ==
    [op |-> "", table |-> "", caller |-> 0, id |-> 0, status |-> 0, body |-> <<>>,
     counts |-> [t \in Tables |-> 0]]

\* the tables are empty and no request was received
HistoryIdle ==
    /\ records = [t \in Tables |-> <<>>]
    /\ hist = NoHistoryRequest

(***************************************************************************)
(* Actions of the request handler and the workflow run                     *)
(***************************************************************************)
\* POST /api/symptoms/route arrives: route_symptoms builds initial_state and
\* calls workflow.run, which enters the graph at its entry point
StartRun(req) ==
    /\ pc \in {"idle", "responded"}
    /\ runs < MaxRuns
    /\ runs' = runs + 1
    /\ created' = InitialState(req)
    /\ ctx' = InitialState(req)
    /\ node' = EntryPoint
    /\ pc' = "node"
    /\ inflight' = {}
    /\ calls' = <<>>
    /\ completed' = <<>>
    /\ requests' = [n \in Nodes |-> NoMessage]
    /\ replies' = [n \in Nodes |-> <<>>]
    /\ err' = ""
    /\ errmsg' = <<>>
    /\ resp' = NoResponse
    /\ UNCHANGED <<pyfmt, parseVars, concVars, authVars, docVars, histVars>>

\* the node builds its user message and awaits chat_model.ainvoke
InvokeModel ==
    /\ pc = "node"
    /\ IF CanBuildMessage(node, ctx)
       THEN /\ pc' = "await"
            /\ inflight' = inflight \cup {node}
            /\ calls' = Append(calls, node)
            /\ requests' = [requests EXCEPT ![node] = UserMessage(node, ctx)]
            /\ UNCHANGED <<node, err, errmsg>>
       ELSE /\ pc' = AfterNode(node, "TypeError").pc
            /\ node' = AfterNode(node, "TypeError").node
            /\ err' = "TypeError"
            /\ errmsg' = StrOf("TypeError")
            /\ UNCHANGED <<inflight, calls, requests>>
    /\ UNCHANGED <<ctx, created, completed, replies, resp, runs, pyfmt, nonPipeVars>>

\* ainvoke returns a reply: the node parses it, assigns its fields and
\* returns the state, or raises
ModelReply(content) ==
    /\ pc = "await"
    /\ LET out == NodeReply(node, ctx, content)
           nxt == AfterNode(node, out.exc)
       IN  /\ ctx' = out.state
           /\ err' = out.exc
           /\ errmsg' = out.msg
           /\ completed' = IF out.exc = "" THEN Append(completed, node) ELSE completed
           /\ pc' = nxt.pc
           /\ node' = nxt.node
    /\ inflight' = inflight \ {node}
    /\ replies' = [replies EXCEPT ![node] = ParseResponse(content).obj]
    /\ UNCHANGED <<created, calls, requests, resp, runs, pyfmt, nonPipeVars>>

\* ainvoke raises (network, timeout, authentication)
ModelError ==
    /\ pc = "await"
    /\ err' = "APIError"
    /\ errmsg' = StrOf("APIError")
    /\ pc' = AfterNode(node, "APIError").pc
    /\ node' = AfterNode(node, "APIError").node
    /\ inflight' = inflight \ {node}
    /\ UNCHANGED <<ctx, created, calls, completed, requests, replies, resp, runs,
                   pyfmt, nonPipeVars>>

\* run() has returned or raised: route_symptoms builds the response or maps
\* the exception to an HTTPException
Respond ==
    /\ pc \in {"done", "raised"}
    /\ resp' = RouteResponse(pc, ctx, err, errmsg)
    /\ pc' = "responded"
    /\ UNCHANGED <<node, ctx, created, inflight, calls, completed, requests, replies,
                   err, errmsg, runs, pyfmt, nonPipeVars>>

Init ==
    /\ pc = "idle"
    /\ node = ""
    /\ ctx = NoState
    /\ created = NoState
    /\ inflight = {}
    /\ calls = <<>>
    /\ completed = <<>>
    /\ requests = [n \in Nodes |-> NoMessage]
    /\ replies = [n \in Nodes |-> <<>>]
    /\ err = ""
    /\ errmsg = <<>>
    /\ resp = NoResponse
    /\ runs = 0
    /\ pyfmt \in {"value", "name"}
    /\ pphase = "off"
    /\ pbody = <<>>
    /\ pres = NoParse
    /\ ConcIdle
    /\ first = NoShape
    /\ AuthIdle
    /\ DoctorIdle
    /\ HistoryIdle

Next ==
    \/ \E req \in SymptomRouteRequests : StartRun(req) /\ UNCHANGED first
    \/ InvokeModel
    \/ \E content \in ReplyBodies(node) : ModelReply(content)
    \/ ModelError
    \/ Respond

Spec == Init /\ [][Next]_vars

(***************************************************************************)
(* Reply parsing on its own: a stage is handed a reply body and parses it. *)
(* Bodies are every string of at most MaxMid brace and member tokens,      *)
(* alone or with a word of prose before and/or after it.                   *)
(***************************************************************************)
A == M("a", "1")
Kk == K("k")

Mids == UNION {[1..n -> {L, R, A, Kk}] : n \in 0..MaxMid}
Prose == {<<>>, <<N>>}
Bodies == {pre \o mid \o post : pre \in Prose, mid \in Mids, post \in Prose}

ParseStep ==
    /\ pphase = "reply"
    /\ pres' = ParseResponse(pbody)
    /\ pphase' = "parsed"
    /\ UNCHANGED <<pbody, pipeVars, concVars, first, authVars, docVars, histVars>>

InitParse ==
    /\ pc = "idle"
    /\ node = ""
    /\ ctx = NoState
    /\ created = NoState
    /\ inflight = {}
    /\ calls = <<>>
    /\ completed = <<>>
    /\ requests = [n \in Nodes |-> NoMessage]
    /\ replies = [n \in Nodes |-> <<>>]
    /\ err = ""
    /\ errmsg = <<>>
    /\ resp = NoResponse
    /\ runs = 0
    /\ pyfmt = "value"
    /\ pphase = "reply"
    /\ pbody \in Bodies
    /\ pres = NoParse
    /\ ConcIdle
    /\ first = NoShape
    /\ AuthIdle
    /\ DoctorIdle
    /\ HistoryIdle

NextParse == ParseStep

SpecParse == InitParse /\ [][NextParse]_vars

(***************************************************************************)
(* The two concurrent requests.  The requests and replies tried are a few  *)
(* of those above, with values that differ between the two runs.           *)
(***************************************************************************)
ConcRequests == {req \in SymptomRouteRequests : req["age"] # PyNone}

ConcReplies(n) ==
    CASE n = "extract_symptoms" ->
            { <<L, M("extracted_symptoms", "[x]"), R>>,
              <<L, M("extracted_symptoms", "[1]"), R>>,
              <<N>> }
      [] n = "assess_urgency" ->
            { <<L, M("urgency_level", "urgent"), M("urgency_assessment", "see a doctor today"),
                M("red_flags", "[x]"), R>>,
              <<L, M("urgency_level", "emergency"),
                M("urgency_assessment", "see a doctor today"), R>>,
              <<L, M("urgency_level", "bogus"), R>> }
      [] n = "route_specialist" ->
            { <<L, M("recommended_specialist", "Pulmonologist"),
                M("reasoning", "respiratory infection"), R>>,
              <<L, M("recommended_specialist", "null"),
                M("reasoning", "respiratory infection"), R>>,
              <<L, M("reasoning", "respiratory infection"), R>> }
      [] n = "generate_recommendations" ->
            { <<L, M("suggested_preparations", "[x]"), M("suggested_tests", "[y]"),
                M("home_care_tips", "[x]"), R>>,
              <<L, R>> }
      [] OTHER -> {}

\* get_symptom_workflow(): the instance is built by the first caller
GetSymptomWorkflow == "SymptomWorkflow"

\* request r arrives: its handler builds initial_state, gets the shared
\* workflow and calls run(), which hands the state to the compiled graph
CStart(r, req) ==
    /\ crun[r].pc = "idle"
    /\ instance' = GetSymptomWorkflow
    /\ crun' = [crun EXCEPT ![r] = [NoRun EXCEPT !.pc = "node", !.node = EntryPoint,
                                                !.init = InitialState(req)]]
    /\ cstate' = [cstate EXCEPT ![Channel(r)] = InitialState(req)]
    /\ UNCHANGED <<pipeVars, parseVars, first, authVars, docVars, histVars>>

\* run r's node builds its message and awaits the service call
CInvoke(r) ==
    LET n == crun[r].node
        st == cstate[Channel(r)]
        nxt == AfterNode(n, "TypeError")
    IN  /\ crun[r].pc = "node"
        /\ crun' = [crun EXCEPT ![r] =
               IF CanBuildMessage(n, st)
               THEN [@ EXCEPT !.pc = "await", !.msgs[n] = UserMessage(n, st)]
               ELSE [@ EXCEPT !.pc = nxt.pc, !.node = nxt.node, !.err = "TypeError",
                              !.errmsg = StrOf("TypeError")]]
        /\ UNCHANGED <<instance, cstate, pipeVars, parseVars, first, authVars, docVars, histVars>>

\* run r's service call returns a reply: its node parses it and assigns
CReply(r, content) ==
    LET n == crun[r].node
        out == NodeReply(n, cstate[Channel(r)], content)
        nxt == AfterNode(n, out.exc)
    IN  /\ crun[r].pc = "await"
        /\ cstate' = [cstate EXCEPT ![Channel(r)] = out.state]
        /\ crun' = [crun EXCEPT ![r] =
               [@ EXCEPT !.pc = nxt.pc, !.node = nxt.node, !.err = out.exc,
                         !.errmsg = out.msg, !.evs = Append(@, ReplyEvent(content))]]
        /\ UNCHANGED <<instance, pipeVars, parseVars, first, authVars, docVars, histVars>>

\* run r's service call raises
CError(r) ==
    LET nxt == AfterNode(crun[r].node, "APIError")
    IN  /\ crun[r].pc = "await"
        /\ crun' = [crun EXCEPT ![r] =
               [@ EXCEPT !.pc = nxt.pc, !.node = nxt.node, !.err = "APIError",
                         !.errmsg = StrOf("APIError"), !.evs = Append(@, ErrorEvent)]]
        /\ UNCHANGED <<instance, cstate, pipeVars, parseVars, first, authVars, docVars, histVars>>

\* run r's run() has returned or raised: its handler answers
CRespond(r) ==
    /\ crun[r].pc \in {"done", "raised"}
    /\ crun' = [crun EXCEPT ![r] =
           [@ EXCEPT !.pc = "responded",
                     !.resp = RouteResponse(crun[r].pc, cstate[Channel(r)],
                                            crun[r].err, crun[r].errmsg)]]
    /\ UNCHANGED <<instance, cstate, pipeVars, parseVars, first, authVars, docVars, histVars>>

InitConc ==
    /\ pc = "idle"
    /\ node = ""
    /\ ctx = NoState
    /\ created = NoState
    /\ inflight = {}
    /\ calls = <<>>
    /\ completed = <<>>
    /\ requests = [n \in Nodes |-> NoMessage]
    /\ replies = [n \in Nodes |-> <<>>]
    /\ err = ""
    /\ errmsg = <<>>
    /\ resp = NoResponse
    /\ runs = 0
    /\ pyfmt \in {"value", "name"}
    /\ pphase = "off"
    /\ pbody = <<>>
    /\ pres = NoParse
    /\ ConcIdle
    /\ first = NoShape
    /\ AuthIdle
    /\ DoctorIdle
    /\ HistoryIdle

NextConc ==
    \E r \in RunIds :
        \/ \E req \in ConcRequests : CStart(r, req)
        \/ CInvoke(r)
        \/ \E content \in ConcReplies(crun[r].node) : CReply(r, content)
        \/ CError(r)
        \/ CRespond(r)

SpecConc == InitConc /\ [][NextConc]_vars

(***************************************************************************)
(* The same request sent again after the first was answered: the runs      *)
(* follow one another on the shared workflow, each with replies of its own. *)
(***************************************************************************)
RerunReplies(n) ==
    IF n = "generate_recommendations"
    THEN ConcReplies(n) \cup {<<L, M("suggested_tests", "null"), R>>}
    ELSE ConcReplies(n)

\* the request is the first, or repeats the one answered before; the shape
\* of the state a returned run ended with is kept for comparison
StartAgain(req) ==
    /\ runs = 0 \/ InitialState(req) = created
    /\ StartRun(req)
    /\ first' = IF pc = "responded" /\ err = "" THEN Shape(ctx) ELSE first

NextRerun ==
    \/ \E req \in SymptomRouteRequests : StartAgain(req)
    \/ InvokeModel
    \/ \E content \in RerunReplies(node) : ModelReply(content)
    \/ ModelError
    \/ Respond

SpecRerun == Init /\ [][NextRerun]_vars

(***************************************************************************)
(* The handlers of /api/auth                                               *)
(***************************************************************************)
Free(h) == hreq[h].pc \in {"idle", "done"} /\ served < MaxAuthRequests

\* POST /api/auth/register arrives
ReceiveRegister(h, email, username, password) ==
    /\ Free(h)
    /\ served' = served + 1
    /\ hreq' = [hreq EXCEPT ![h] =
           [NoRequest EXCEPT !.op = "register", !.pc = "check_email", !.email = email,
                             !.username = username, !.password = password]]
    /\ UNCHANGED <<users, issued, jwts, past, nonAuthVars>>

\* register: the query for the email
RegisterCheckEmail(h) ==
    /\ hreq[h].pc = "check_email"
    /\ hreq' = [hreq EXCEPT ![h] =
           IF ByEmail(users, hreq[h].email) # 0
           THEN [@ EXCEPT !.pc = "done", !.status = 400,
                          !.detail = "Email already registered"]
           ELSE [@ EXCEPT !.pc = "check_username"]]
    /\ UNCHANGED <<users, issued, served, jwts, past, nonAuthVars>>

\* register: the query for the username
RegisterCheckUsername(h) ==
    /\ hreq[h].pc = "check_username"
    /\ hreq' = [hreq EXCEPT ![h] =
           IF ByUsername(users, hreq[h].username) # 0
           THEN [@ EXCEPT !.pc = "done", !.status = 400,
                          !.detail = "Username already taken"]
           ELSE [@ EXCEPT !.pc = "commit"]]
    /\ UNCHANGED <<users, issued, served, jwts, past, nonAuthVars>>

\* register: db.add(new_user); db.commit().  A row the unique constraints
\* reject makes commit raise IntegrityError, which nothing catches: 500.
RegisterCommit(h) ==
    LET new_user == [email |-> hreq[h].email, username |-> hreq[h].username,
                     hashed_password |-> GetPasswordHash(hreq[h].password, h),
                     is_active |-> TRUE, reset_token |-> 0,
                     reset_token_expires |-> 0, last_login |-> 0]
    IN  /\ hreq[h].pc = "commit"
        /\ IF UniqueOk(users, new_user)
           THEN /\ users' = Append(users, new_user)
                /\ hreq' = [hreq EXCEPT ![h] =
                       [@ EXCEPT !.pc = "done", !.status = 201, !.user = Len(users) + 1]]
           ELSE /\ users' = users
                /\ hreq' = [hreq EXCEPT ![h] =
                       [@ EXCEPT !.pc = "done", !.status = 500,
                                 !.detail = "Internal Server Error"]]
        /\ UNCHANGED <<issued, served, jwts, past, nonAuthVars>>

\* POST /api/auth/login
Login(h, email, password) ==
    LET user == AuthenticateUser(users, email, password)
    IN  /\ Free(h)
        /\ served' = served + 1
        /\ IF user = 0
           THEN /\ hreq' = [hreq EXCEPT ![h] =
                       [NoRequest EXCEPT !.op = "login", !.pc = "done", !.email = email,
                                         !.password = password, !.status = 401,
                                         !.detail = "Incorrect email or password"]]
                /\ UNCHANGED <<users, issued, jwts>>
           ELSE /\ users' = [users EXCEPT ![user].last_login = served + 1]
                /\ hreq' = [hreq EXCEPT ![h] =
                       [NoRequest EXCEPT !.op = "login", !.pc = "done", !.email = email,
                                         !.password = password, !.status = 200,
                                         !.tokens = TRUE, !.user = user]]
                /\ issued' = issued \cup {user}
                /\ jwts' = jwts \cup CreateTokens(user, served + 1)
        /\ UNCHANGED <<past, nonAuthVars>>

\* DELETE /api/auth/me with the access token of user u
DeleteAccount(h, u) ==
    /\ Free(h)
    /\ u \in issued
    /\ served' = served + 1
    /\ users' = [users EXCEPT ![u].is_active = FALSE]
    /\ hreq' = [hreq EXCEPT ![h] =
           [NoRequest EXCEPT !.op = "delete", !.pc = "done", !.status = 200, !.user = u,
                             !.detail = "Account deactivated successfully"]]
    /\ UNCHANGED <<issued, jwts, past, nonAuthVars>>

NextAuth ==
    \E h \in Handlers :
        \/ \E e \in Emails, n \in Usernames : ReceiveRegister(h, e, n, "SecurePass123!")
        \/ RegisterCheckEmail(h)
        \/ RegisterCheckUsername(h)
        \/ RegisterCommit(h)
        \/ \E e \in Emails, p \in Passwords : Login(h, e, p)
        \/ \E u \in issued : DeleteAccount(h, u)

SpecAuth == Init /\ [][NextAuth]_vars

\* refresh_token, were it to record the refresh in the user row as login does
RefreshTouching(h, token) ==
    /\ Free(h)
    /\ served' = served + 1
    /\ IF ~VerifyToken(token, "refresh")
       THEN /\ hreq' = [hreq EXCEPT ![h] =
                   [NoRequest EXCEPT !.op = "refresh", !.refresh_token = token,
                                     !.pc = "done", !.status = 401,
                                     !.detail = "verify_token: 401"]]
            /\ UNCHANGED <<issued, jwts>>
       ELSE IF ~RefreshUserOk(users, token.user_id)
       THEN /\ hreq' = [hreq EXCEPT ![h] =
                   [NoRequest EXCEPT !.op = "refresh", !.refresh_token = token,
                                     !.pc = "done", !.status = 401,
                                     !.detail = "Invalid refresh token"]]
            /\ UNCHANGED <<issued, jwts>>
       ELSE /\ hreq' = [hreq EXCEPT ![h] =
                   [NoRequest EXCEPT !.op = "refresh", !.refresh_token = token,
                                     !.pc = "done", !.status = 200,
                                     !.tokens = TRUE, !.user = token.user_id]]
            /\ issued' = issued \cup {token.user_id}
            /\ jwts' = jwts \cup CreateTokens(token.user_id, served + 1)
    /\ users' = IF VerifyToken(token, "refresh") /\ RefreshUserOk(users, token.user_id)
                THEN [users EXCEPT ![token.user_id].last_login = served + 1]
                ELSE users
    /\ UNCHANGED <<past, nonAuthVars>>


(***************************************************************************)
(* Tokens and password reset: one handler at a time, with time passing.    *)
(***************************************************************************)
\* POST /api/auth/refresh with a token
Refresh(h, token) ==
    /\ Free(h)
    /\ served' = served + 1
    /\ IF ~VerifyToken(token, "refresh")
       THEN /\ hreq' = [hreq EXCEPT ![h] =
                   [NoRequest EXCEPT !.op = "refresh", !.refresh_token = token,
                                     !.pc = "done", !.status = 401,
                                     !.detail = "verify_token: 401"]]
            /\ UNCHANGED <<issued, jwts>>
       ELSE IF ~RefreshUserOk(users, token.user_id)
       THEN /\ hreq' = [hreq EXCEPT ![h] =
                   [NoRequest EXCEPT !.op = "refresh", !.refresh_token = token,
                                     !.pc = "done", !.status = 401,
                                     !.detail = "Invalid refresh token"]]
            /\ UNCHANGED <<issued, jwts>>
       ELSE /\ hreq' = [hreq EXCEPT ![h] =
                   [NoRequest EXCEPT !.op = "refresh", !.refresh_token = token,
                                     !.pc = "done", !.status = 200,
                                     !.tokens = TRUE, !.user = token.user_id]]
            /\ issued' = issued \cup {token.user_id}
            /\ jwts' = jwts \cup CreateTokens(token.user_id, served + 1)
    /\ UNCHANGED <<users, past, nonAuthVars>>

\* POST /api/auth/forgot-password
ForgotPassword(h, email) ==
    LET user == ByEmail(users, email)
        reset_token == served + 1       \* secrets.token_urlsafe(32): a new value
    IN  /\ Free(h)
        /\ served' = served + 1
        /\ IF user = 0
           THEN /\ users' = users
                /\ hreq' = [hreq EXCEPT ![h] =
                       [NoRequest EXCEPT !.op = "forgot", !.pc = "done", !.email = email,
                                         !.status = 200, !.detail = ResetMessage]]
           ELSE /\ users' = [users EXCEPT ![user].reset_token = reset_token,
                                          ![user].reset_token_expires = reset_token]
                /\ hreq' = [hreq EXCEPT ![h] =
                       [NoRequest EXCEPT !.op = "forgot", !.pc = "done", !.email = email,
                                         !.status = 200, !.detail = ResetMessage,
                                         !.link = reset_token]]
        /\ UNCHANGED <<issued, jwts, past, nonAuthVars>>

\* POST /api/auth/reset-password
ResetPassword(h, token, new_password) ==
    LET user == ByResetToken(users, token)
    IN  /\ Free(h)
        /\ served' = served + 1
        /\ IF user = 0
           THEN /\ users' = users
                /\ hreq' = [hreq EXCEPT ![h] =
                       [NoRequest EXCEPT !.op = "reset", !.pc = "done", !.link = token,
                                         !.password = new_password, !.status = 400,
                                         !.detail = "Invalid or expired reset token"]]
           ELSE /\ users' = [users EXCEPT
                                ![user] = UpdatePassword(@, GetPasswordHash(new_password, h))]
                /\ hreq' = [hreq EXCEPT ![h] =
                       [NoRequest EXCEPT !.op = "reset", !.pc = "done", !.link = token,
                                         !.password = new_password, !.status = 200,
                                         !.user = user,
                                         !.detail = "Password reset successful. You can now login with your new password."]]
        /\ UNCHANGED <<issued, jwts, past, nonAuthVars>>

\* the expiry instants set so far
Instants ==
    {Instant(t.type, t.n) : t \in jwts}
    \cup {Instant("reset", users[i].reset_token_expires) :
             i \in {k \in 1..Len(users) : users[k].reset_token_expires # 0}}

\* time passes an expiry instant
Lapse(i) ==
    /\ i \notin past
    /\ past' = past \cup {i}
    /\ UNCHANGED <<users, hreq, issued, served, jwts, nonAuthVars>>

NewPassword == "NewPass456!"

NextAccount ==
    \/ \E e \in Emails, n \in Usernames : ReceiveRegister("h1", e, n, "SecurePass123!")
    \/ RegisterCheckEmail("h1")
    \/ RegisterCheckUsername("h1")
    \/ RegisterCommit("h1")
    \/ \E e \in Emails, p \in Passwords \cup {NewPassword} : Login("h1", e, p)
    \/ \E u \in issued : DeleteAccount("h1", u)
    \/ \E token \in jwts \cup {Forged} : Refresh("h1", token)
    \/ \E e \in Emails : ForgotPassword("h1", e)
    \/ \E token \in 1..MaxAuthRequests, p \in Passwords \cup {NewPassword} :
           ResetPassword("h1", token, p)
    \/ \E i \in Instants : Lapse(i)

InitAccount == Init /\ pyfmt = "value"

SpecAccount == InitAccount /\ [][NextAccount]_vars

(***************************************************************************)
(* The doctor search, one request at a time, and _guess_state_from_zip     *)
(* called on its own.                                                      *)
(***************************************************************************)
\* params of the registry request
RegistryParams(pincode, limit) ==
    [postal_code |-> CleanZip(pincode),
     state |-> GuessStateFromZip(pincode),
     limit |-> Min({limit * 2, ApiMaxLimit})]

\* POST /api/doctors/search arrives: search_doctors up to the await of the
\* registry call, or to its response when the postal code has fewer than
\* five digits and no call is made
ReceiveSearch(pincode, limit) ==
    /\ doc.pc \in {"idle", "done"}
    /\ IF Len(CleanZip(pincode)) < 5
       THEN doc' = [NoSearch EXCEPT !.pc = "done", !.pincode = pincode, !.limit = limit,
                                    !.outcome = "invalid_zip", !.status = 200]
       ELSE doc' = [NoSearch EXCEPT !.pc = "await", !.pincode = pincode, !.limit = limit,
                                    !.requests = <<RegistryParams(pincode, limit)>>]
    /\ UNCHANGED <<guess, nonDocVars>>

\* the registry call, were a state-wide request to follow an empty result
RegistryReturnsExpanding(api_results) ==
    /\ doc.pc = "await"
    /\ IF api_results = <<>> /\ Len(doc.requests) = 1
       THEN doc' = [doc EXCEPT !.requests =
                        Append(@, [doc.requests[1] EXCEPT !.postal_code = <<>>])]
       ELSE LET doctors == SearchWithExternalApi(api_results, doc.limit)
            IN  doc' = [doc EXCEPT !.pc = "done", !.outcome = "results",
                                   !.api_results = api_results, !.status = 200,
                                   !.total_doctors_found = Len(doctors),
                                   !.doctors = doctors]
    /\ UNCHANGED <<guess, nonDocVars>>

\* the registry answers with its (normalised) results: the rest of
\* _search_with_external_api and the response of search_doctors
RegistryReturns(api_results) ==
    /\ doc.pc = "await"
    /\ LET doctors == SearchWithExternalApi(api_results, doc.limit)
       IN  doc' = [doc EXCEPT !.pc = "done", !.outcome = "results",
                              !.api_results = api_results, !.status = 200,
                              !.total_doctors_found = Len(doctors),
                              !.doctors = doctors]
    /\ UNCHANGED <<guess, nonDocVars>>

\* the registry call raises (HTTP status, network): the except clauses of
\* the external search_doctors return []
RegistryFails ==
    /\ doc.pc = "await"
    /\ doc' = [doc EXCEPT !.pc = "done", !.outcome = "error", !.status = 200]
    /\ UNCHANGED <<guess, nonDocVars>>

\* a call of _guess_state_from_zip
GuessState(zip_code) ==
    /\ guess' = [called |-> TRUE, zip_code |-> zip_code,
                 state |-> GuessStateFromZip(zip_code)]
    /\ UNCHANGED <<doc, nonDocVars>>

NextDoctor ==
    \/ \E pincode \in Pincodes, limit \in 1..MaxLimit : ReceiveSearch(pincode, limit)
    \/ \E api_results \in RegistryResults : RegistryReturns(api_results)
    \/ RegistryFails

SpecDoctor == InitAccount /\ [][NextDoctor]_vars

NextGuess == \E zip_code \in Zips : GuessState(zip_code)

SpecGuess == InitAccount /\ [][NextGuess]_vars

(***************************************************************************)
(* The routes of /api/history, one request at a time (no handler awaits    *)
(* between its query and its commit).                                      *)
(***************************************************************************)
TotalRecords == Len(records["reports"]) + Len(records["symptoms"])
                + Len(records["imaging"]) + Len(records["favorites"])

HistoryAnswer(op, table, caller, id, status, body) ==
    [NoHistoryRequest EXCEPT !.op = op, !.table = table, !.caller = caller, !.id = id,
                             !.status = status, !.body = body]

\* POST /reports, /symptoms, /imaging
CreateHistory(table, caller) ==
    /\ table # "favorites"
    /\ TotalRecords < MaxRecords
    /\ LET row == [id |-> NewId(records[table]), user_id |-> caller,
                   doctor_id |-> "", notes |-> ""]
       IN  /\ records' = [records EXCEPT ![table] = Append(@, row)]
           /\ hist' = HistoryAnswer("create", table, caller, row.id, 201, <<row>>)
    /\ UNCHANGED nonHistVars

\* POST /doctors/favorites
AddFavoriteDoctor(caller, doctor_id, notes) ==
    /\ LET rows == records["favorites"]
           existing == {i \in 1..Len(rows) :
                           rows[i].user_id = caller /\ rows[i].doctor_id = doctor_id}
           row == [id |-> NewId(rows), user_id |-> caller,
                   doctor_id |-> doctor_id, notes |-> notes]
       IN  IF existing # {}
           THEN /\ hist' = HistoryAnswer("create", "favorites", caller, 0, 400, <<>>)
                /\ UNCHANGED records
           ELSE /\ TotalRecords < MaxRecords
                /\ records' = [records EXCEPT !["favorites"] = Append(@, row)]
                /\ hist' = HistoryAnswer("create", "favorites", caller, row.id, 201, <<row>>)
    /\ UNCHANGED nonHistVars

\* GET /reports, /symptoms, /imaging, /doctors/favorites
ListHistory(table, caller) ==
    /\ hist' = HistoryAnswer("list", table, caller, 0, 200, ListOf(records[table], caller))
    /\ UNCHANGED <<records, nonHistVars>>

\* GET /reports/{id}, /symptoms/{id}, /imaging/{id}
GetHistoryById(table, id, caller) ==
    /\ table # "favorites"
    /\ LET k == FindById(records[table], id, caller)
       IN  hist' = IF k = 0
                   THEN HistoryAnswer("get", table, caller, id, 404, <<>>)
                   ELSE HistoryAnswer("get", table, caller, id, 200, <<records[table][k]>>)
    /\ UNCHANGED <<records, nonHistVars>>

\* PUT /doctors/favorites/{id}
UpdateFavoriteDoctor(id, caller, notes) ==
    /\ LET k == FindById(records["favorites"], id, caller)
       IN  IF k = 0
           THEN /\ hist' = HistoryAnswer("update", "favorites", caller, id, 404, <<>>)
                /\ UNCHANGED records
           ELSE /\ records' = [records EXCEPT !["favorites"][k].notes = notes]
                /\ hist' = HistoryAnswer("update", "favorites", caller, id, 200,
                                         <<[records["favorites"][k] EXCEPT !.notes = notes]>>)
    /\ UNCHANGED nonHistVars

\* DELETE /reports/{id}, /symptoms/{id}, /imaging/{id}, /doctors/favorites/{id}
DeleteHistory(table, id, caller) ==
    /\ LET k == FindById(records[table], id, caller)
       IN  IF k = 0
           THEN /\ hist' = HistoryAnswer("delete", table, caller, id, 404, <<>>)
                /\ UNCHANGED records
           ELSE /\ records' = [records EXCEPT ![table] = Remove(@, k)]
                /\ hist' = HistoryAnswer("delete", table, caller, id, 200, <<>>)
    /\ UNCHANGED nonHistVars

\* GET /dashboard: the four counts and the recent reports, symptoms and
\* imaging records
GetDashboardStats(caller) ==
    /\ hist' = [HistoryAnswer("dashboard", "", caller, 0, 200,
                              ListOf(records["reports"], caller)
                              \o ListOf(records["symptoms"], caller)
                              \o ListOf(records["imaging"], caller))
                  EXCEPT !.counts = [t \in Tables |-> Len(ListOf(records[t], caller))]]
    /\ UNCHANGED <<records, nonHistVars>>

NextHistory ==
    \/ \E t \in Tables, c \in Callers : CreateHistory(t, c)
    \/ \E c \in Callers, d \in DoctorIds, n \in Notes : AddFavoriteDoctor(c, d, n)
    \/ \E t \in Tables, c \in Callers : ListHistory(t, c)
    \/ \E t \in Tables, id \in 1..MaxRecords, c \in Callers : GetHistoryById(t, id, c)
    \/ \E id \in 1..MaxRecords, c \in Callers, n \in Notes : UpdateFavoriteDoctor(id, c, n)
    \/ \E t \in Tables, id \in 1..MaxRecords, c \in Callers : DeleteHistory(t, id, c)
    \/ \E c \in Callers : GetDashboardStats(c)

SpecHistory == InitAccount /\ [][NextHistory]_vars

(***************************************************************************)
(* Properties                                                              *)
(***************************************************************************)
StageOrder ==
    <<"extract_symptoms", "assess_urgency", "route_specialist", "generate_recommendations">>

IsPrefix(a, b) == Len(a) <= Len(b) /\ a = SubSeq(b, 1, Len(a))
Called(n) == \E i \in 1..Len(calls) : calls[i] = n
Completed(n) == \E i \in 1..Len(completed) : completed[i] = n

\* C1: in every run the reasoning-service calls are made in the order
\* extract_symptoms, assess_urgency, route_specialist,
\* generate_recommendations: the calls made and the stages completed are
\* prefixes of that order (none skipped, repeated or re-entered), a call is
\* made only when every earlier stage has completed, at most one call is in
\* flight and it is the call of the stage after the completed ones, and a
\* run that returns has made all four calls.
C1_StagesInFixedOrder ==
    /\ IsPrefix(calls, StageOrder)
    /\ IsPrefix(completed, StageOrder)
    /\ Len(completed) <= Len(calls)
    /\ Len(calls) <= Len(completed) + 1
    /\ Cardinality(inflight) <= 1
    /\ inflight # {} =>
          /\ pc = "await"
          /\ Len(calls) = Len(completed) + 1
          /\ inflight = {calls[Len(calls)]}
    /\ pc = "done" => calls = StageOrder

C1_Witness ==
    /\ pc = "await"
    /\ inflight = {"generate_recommendations"}
    /\ completed = SubSeq(StageOrder, 1, 3)

\* C2: a run is at Done, and a 200 response is handed out, only when all
\* four stages of that run have completed, none raised, no call is pending
\* and every derived field has been assigned.
C2_DoneOnlyAfterAllStages ==
    (pc = "done" \/ resp.status = 200) =>
        /\ completed = StageOrder
        /\ err = ""
        /\ inflight = {}
        /\ \A f \in DerivedFields : ctx[f] # Unset

C2_Witness == pc = "responded" /\ resp.status = 200

\* C3: once a stage has failed (the call raised, the reply could not be
\* parsed, or a required field was missing or invalid) the run makes no
\* further call, completes no further stage, never leaves the failed state
\* except to answer the request, and the answer is an error.
C3_FailureIsFatal ==
    /\ [](err # "" =>
            /\ pc \in {"raised", "responded"}
            /\ inflight = {}
            /\ Len(completed) < Len(StageOrder)
            /\ pc = "responded" => resp.status \in {400, 500})
    /\ [][err # "" /\ runs' = runs =>
            /\ calls' = calls
            /\ completed' = completed
            /\ err' = err
            /\ ctx' = ctx
            /\ pc' \in {"raised", "responded"}]_vars

C3_Witness ==
    /\ pc = "responded"
    /\ err = "KeyError"
    /\ calls = SubSeq(StageOrder, 1, 2)
    /\ resp.status = 500

\* C4: within one run chat_model.ainvoke is called at most once per stage,
\* however the call ended.
C4_AtMostOneCallPerStage ==
    \A n \in Nodes : Cardinality({i \in 1..Len(calls) : calls[i] = n}) <= 1

C4_Witness ==
    /\ pc = "raised"
    /\ err \in {"JSONDecodeError", "ValueError", "APIError"}
    /\ calls = SubSeq(StageOrder, 1, 3)

Writer(f) ==
    CASE f = "extracted_symptoms" -> "extract_symptoms"
      [] f \in {"urgency_level", "urgency_assessment", "red_flags"} -> "assess_urgency"
      [] f \in {"recommended_specialist", "reasoning"} -> "route_specialist"
      [] f \in {"suggested_preparations", "suggested_tests", "home_care_tips"} ->
            "generate_recommendations"
      [] OTHER -> ""

\* C5: a derived field is assigned only by its one writing stage, when that
\* stage handles its reply and the field is still unset; its value then
\* stays as it is for the rest of the run; and a stage that has completed
\* has assigned all its fields.
C5_SingleWriterNeverChanged ==
    /\ [](\A f \in DerivedFields :
            /\ ctx[f] # Unset => Called(Writer(f))
            /\ Completed(Writer(f)) => ctx[f] # Unset)
    /\ [][\A f \in DerivedFields :
            ctx'[f] # ctx[f] /\ runs' = runs =>
                pc = "await" /\ node = Writer(f) /\ ctx[f] = Unset]_vars

C5_Witness ==
    /\ pc = "done"
    /\ ctx["red_flags"] = PyList(<<"x">>)
    /\ ctx["suggested_tests"] = PyList(<<"y">>)

\* C6: in every state of a run the input fields of the state dict equal the
\* initial_state the run was created with, which is the request's fields
\* with absent lists replaced by empty lists.
C6_InputsUnchanged ==
    pc # "idle" =>
        /\ \A f \in InputFields : ctx[f] = created[f]
        /\ \E req \in SymptomRouteRequests :
              \A f \in InputFields :
                  created[f] = IF f \in {"existing_conditions", "current_medications"}
                                  /\ req[f] = PyNone
                               THEN PyList(<<>>) ELSE req[f]

C6_Witness ==
    /\ pc = "done"
    /\ ctx["age"] = PyInt("35")
    /\ ctx["existing_conditions"] = PyList(<<"asthma">>)

StageIdx(n) == CHOOSE i \in 1..Len(StageOrder) : StageOrder[i] = n
LaterStages == {"assess_urgency", "route_specialist", "generate_recommendations"}
ListFields ==
    {"existing_conditions", "current_medications", "extracted_symptoms", "red_flags"}

\* an input field the request gave a value for
Supplied(f) == created[f] # PyNone /\ created[f] # PyList(<<>>)
\* a derived field that holds something to pass on
Produced(f) == ctx[f] \notin {Unset, PyNone, PyList(<<>>)}

\* C7 as claimed: the request of every stage after the first holds every
\* input field that was supplied and every derived field the earlier stages
\* of the run produced.
C7_FullContextInRequest ==
    \A n \in LaterStages :
        Called(n) =>
            /\ \A f \in InputFields : Supplied(f) => requests[n][f].inc
            /\ \A f \in DerivedFields :
                  StageIdx(Writer(f)) < StageIdx(n) /\ Produced(f) => requests[n][f].inc

\* the fields the user message of a stage reads
StageReads(n) ==
    PatientFields \cup {"extracted_symptoms"} \cup
    CASE n = "assess_urgency" -> {"duration"}
      [] n = "route_specialist" -> {"urgency_level", "red_flags"}
      [] n = "generate_recommendations" -> {"recommended_specialist", "urgency_level"}
      [] OTHER -> {}

\* the value a field has for a later stage: the created input, or what the
\* earlier stage assigned
FieldValue(f) == IF f \in InputFields THEN created[f] ELSE ctx[f]
FieldText(f) == IF f \in ListFields THEN Join(FieldValue(f)) ELSE Format(FieldValue(f))

\* C7 as amended: the request of every stage after the first holds
\* extracted_symptoms and each of age, sex, existing_conditions and
\* current_medications whose value is truthy; stage 2 adds duration, stage 3
\* urgency_level and a non-empty red_flags, stage 4 recommended_specialist
\* and urgency_level, each with the value the run holds for it; every other
\* field (the symptoms text, urgency_assessment, reasoning, ...) is left out.
C7_RelevantContextInRequest ==
    \A n \in LaterStages :
        Called(n) =>
            \A f \in Fields :
                requests[n][f] =
                    IF /\ f \in StageReads(n)
                       /\ f \in PatientFields \cup {"red_flags"} => Truthy(FieldValue(f))
                    THEN Inc(FieldText(f))
                    ELSE Omit

C7_Witness ==
    /\ Called("generate_recommendations")
    /\ created["age"] = PyInt("35")
    /\ ctx["red_flags"] = PyList(<<"x">>)
    /\ ~requests["generate_recommendations"]["red_flags"].inc
    /\ requests["generate_recommendations"]["recommended_specialist"].inc

\* C8: the user message of route_specialist holds the urgency level that
\* assess_urgency took from its reply in the same run, as Python prints the
\* enumeration member in an f-string (its value, or UrgencyLevel.NAME).
C8_RouteRequestCarriesUrgency ==
    Called("route_specialist") =>
        /\ HasKey(replies["assess_urgency"], "urgency_level")
        /\ LET u == DictItem(replies["assess_urgency"], "urgency_level")
           IN  /\ IsUrgencyValue(u)
               /\ ctx["urgency_level"] = PyEnum(u.v[1])
               /\ requests["route_specialist"]["urgency_level"].inc
               /\ requests["route_specialist"]["urgency_level"].txt
                    \in {<<u.v[1]>>, <<EnumName(u.v[1])>>}

C8_Witness ==
    /\ Called("route_specialist")
    /\ ctx["urgency_level"] = PyEnum("emergency")
    /\ requests["route_specialist"]["urgency_level"].txt = <<"UrgencyLevel.EMERGENCY">>

(***************************************************************************)
(* Properties of reply parsing (SpecParse)                                 *)
(***************************************************************************)
\* the body without a leading and a trailing word of prose
Core(s) ==
    LET a == IF Len(s) > 0 /\ s[1] = N THEN 2 ELSE 1
        b == IF Len(s) >= a /\ s[Len(s)] = N THEN Len(s) - 1 ELSE Len(s)
    IN  SubSeq(s, a, b)

IsObjectText(o) == Len(o) > 0 /\ o[1] = L /\ MembersEnd(o, 2) = Len(o)
IsFlatObjectText(o) ==
    /\ Len(o) >= 2
    /\ o[1] = L
    /\ o[Len(o)] = R
    /\ \A i \in 2..(Len(o) - 1) : o[i][1] = "m"

\* C9 as claimed: when the reply is a valid JSON object of any nesting depth
\* with prose around it, the stage obtains exactly that object.
C9_RecoversObjectOfAnyDepth ==
    pphase = "parsed" /\ IsObjectText(Core(pbody)) =>
        pres.exc = "" /\ pres.kind = "dict" /\ pres.obj = Core(pbody)

Unparseable(content) ==
    /\ ~json_loads(content).ok
    /\ \/ ~re_search(content).found
       \/ ~json_loads(re_search(content).group).ok

\* C11: when a stage is given a reply that can be parsed neither directly
\* nor after the brace-extraction recovery, the stage raises the parse
\* block's error (ValueError when no brace-delimited substring is found,
\* json's JSONDecodeError, a ValueError too, when the extracted substring is
\* invalid), the run ends at that stage, and the context is left exactly as
\* it was: none of the stage's fields is written.
C11_UnparseableReplyFailsStage ==
    [][\A content \in ReplyBodies(node) :
          ModelReply(content) /\ Unparseable(content) =>
              /\ pc' = "raised"
              /\ node' = node
              /\ err' = (IF re_search(content).found THEN "JSONDecodeError"
                                                     ELSE "ValueError")
              /\ err' \in ValueErrors
              /\ ctx' = ctx
              /\ \A f \in Fields : Writer(f) = node => ctx'[f] = Unset]_vars

C11_Witness ==
    /\ pc = "raised"
    /\ node = "assess_urgency"
    /\ err = "JSONDecodeError"
    /\ ctx["extracted_symptoms"] # Unset
    /\ \A f \in {"urgency_level", "urgency_assessment", "red_flags"} : ctx[f] = Unset

\* the optional list fields of a stage's reply
OptionalFields(n) ==
    CASE n = "assess_urgency" -> {"red_flags"}
      [] n = "generate_recommendations" ->
            {"suggested_preparations", "suggested_tests", "home_care_tips"}
      [] OTHER -> {}

\* the fields a stage's reply must hold for the stage to return
RequiredOk(n, obj) ==
    n = "assess_urgency" =>
        /\ HasKey(obj, "urgency_level")
        /\ IsUrgencyValue(DictItem(obj, "urgency_level"))
        /\ HasKey(obj, "urgency_assessment")

\* C12: when the reply a stage parsed is an object that omits an optional
\* list field (red_flags in assess_urgency; suggested_preparations,
\* suggested_tests, home_care_tips in generate_recommendations), the
\* omission does not fail the stage: it returns (given, in assess_urgency,
\* its required fields) and the field of the context is the empty list.
C12_OmittedOptionalListIsEmpty ==
    [][\A content \in ReplyBodies(node) :
          LET p == ParseResponse(content)
          IN  /\ ModelReply(content)
              /\ p.exc = ""
              /\ p.kind = "dict"
              /\ RequiredOk(node, p.obj)
              => \A f \in OptionalFields(node) :
                     ~HasKey(p.obj, f) =>
                         /\ err' = ""
                         /\ completed' = Append(completed, node)
                         /\ ctx'[f] = PyList(<<>>)]_vars

C12_Witness ==
    /\ pc = "done"
    /\ ~HasKey(replies["assess_urgency"], "red_flags")
    /\ ctx["red_flags"] = PyList(<<>>)
    /\ \A f \in OptionalFields("generate_recommendations") :
           ~HasKey(replies["generate_recommendations"], f) /\ ctx[f] = PyList(<<>>)

\* the reply object lacks a required field of the stage, or its
\* urgency_level is no member of UrgencyLevel
RequiredMissing(n, obj) ==
    \/ n = "assess_urgency" /\ ~HasKey(obj, "urgency_level")
    \/ n = "route_specialist" /\ ~HasKey(obj, "recommended_specialist")
InvalidUrgency(n, obj) ==
    /\ n = "assess_urgency"
    /\ HasKey(obj, "urgency_level")
    /\ ~IsUrgencyValue(DictItem(obj, "urgency_level"))

\* C13: when the reply a stage parsed omits a required field (urgency_level
\* in assess_urgency, recommended_specialist in route_specialist) or its
\* urgency_level is not one of the four levels, the stage raises (KeyError
\* for the missing key, ValueError for the unknown level; not the error of
\* a failed service call), the run ends there without reaching a later
\* stage, and the response carries an error status and not one field of
\* the context, however much of it the earlier stages had populated.
C13_MissingRequiredFieldFailsRun ==
    /\ [][\A content \in ReplyBodies(node) :
            LET p == ParseResponse(content)
            IN  /\ ModelReply(content)
                /\ p.exc = ""
                /\ p.kind = "dict"
                /\ RequiredMissing(node, p.obj) \/ InvalidUrgency(node, p.obj)
                => /\ pc' = "raised"
                   /\ node' = node
                   /\ err' = (IF RequiredMissing(node, p.obj) THEN "KeyError"
                                                               ELSE "ValueError")
                   /\ completed' = completed]_vars
    /\ [][pc = "raised" => /\ pc' = "responded"
                           /\ resp'.status \in {400, 500}
                           /\ resp'.body = NoBody]_vars
    /\ [](resp.status # 200 => resp.body = NoBody)

C13_Witness ==
    /\ pc = "responded"
    /\ node = "route_specialist"
    /\ err = "KeyError"
    /\ replies["route_specialist"] # <<>>
    /\ ~HasKey(replies["route_specialist"], "recommended_specialist")
    /\ ctx["urgency_level"].t = "enum"
    /\ ctx["extracted_symptoms"] # Unset
    /\ resp.status = 500
    /\ resp.body = NoBody

\* a list whose items are strings (a list holding a number has t "intlist")
ListOfStrings(val) == val.t = "list"
DerivedListFields ==
    {"extracted_symptoms", "red_flags", "suggested_preparations", "suggested_tests",
     "home_care_tips"}

\* the run returned from run(): it is about to be answered, or was answered
\* without an exception of the workflow
RunSucceeded == pc = "done" \/ (pc = "responded" /\ err = "")

\* C14: whatever the reasoning service replied, a run that returned holds a
\* context whose urgency_level is one of the four levels, whose
\* recommended_specialist and reasoning are present, and whose list fields
\* (extracted_symptoms, red_flags, suggested_preparations, suggested_tests,
\* home_care_tips) are each a list of strings.
C14_SuccessfulRunWellTyped ==
    RunSucceeded =>
        /\ ctx["urgency_level"].t = "enum"
        /\ ctx["urgency_level"].v[1] \in UrgencyLevel
        /\ ctx["recommended_specialist"] # Unset
        /\ ctx["reasoning"] # Unset
        /\ \A f \in DerivedListFields : ListOfStrings(ctx[f])

\* the text the reasoning service sent in this run: the literals of the
\* members of its parsed replies
ReplyLiterals ==
    UNION {{replies[n][i][3] : i \in 1..Len(replies[n])} : n \in Nodes} \ {""}

\* C15: whenever a run failed, whether on a malformed reply or on a failed
\* service call, the response of POST /api/symptoms/route carries the one
\* generic failure message and no piece of text of a reply of the reasoning
\* service.
C15_FailureResponseIsGeneric ==
    pc = "responded" /\ err # "" =>
        /\ resp.detail = GenericDetail
        /\ \A i \in 1..Len(resp.detail) : resp.detail[i] \notin ReplyLiterals

\* Where a run is, and with what state and messages sent, when it was
\* started with init and its service calls have ended with evs so far: the
\* run taken by itself, computed from its own input and replies only.
RECURSIVE Alone(_, _)
Alone(init, evs) ==
    IF evs = <<>>
    THEN [pc |-> "node", node |-> EntryPoint, ctx |-> init, err |-> "", errmsg |-> <<>>,
          msgs |-> [n \in Nodes |-> NoMessage]]
    ELSE LET prev == Alone(init, SubSeq(evs, 1, Len(evs) - 1))
             ev == evs[Len(evs)]
             n == prev.node
             out == IF ev.kind = "error"
                    THEN RaiseWith("APIError", StrOf("APIError"), prev.ctx)
                    ELSE NodeReply(n, prev.ctx, ev.content)
             nxt == AfterNode(n, out.exc)
         IN  [pc |-> nxt.pc, node |-> nxt.node, ctx |-> out.state, err |-> out.exc,
              errmsg |-> out.msg,
              msgs |-> [prev.msgs EXCEPT ![n] = UserMessage(n, prev.ctx)]]

\* what run r's handler must hold if the run depends on nothing but its own
\* input and replies
OwnOutcome(r) ==
    LET a == Alone(crun[r].init, crun[r].evs)
        sending == crun[r].pc = "await"
        joinFailed == a.pc = "node" /\ crun[r].pc \in {"raised", "responded"}
        endPc == IF joinFailed THEN "raised" ELSE a.pc
        endErr == IF joinFailed THEN "TypeError" ELSE a.err
        endMsg == IF joinFailed THEN StrOf("TypeError") ELSE a.errmsg
    IN  [ctx |-> a.ctx,
         msgs |-> IF sending THEN [a.msgs EXCEPT ![a.node] = UserMessage(a.node, a.ctx)]
                             ELSE a.msgs,
         err |-> IF crun[r].pc \in {"node", "await"} THEN "" ELSE endErr,
         resp |-> IF crun[r].pc = "responded"
                  THEN RouteResponse(endPc, a.ctx, endErr, endMsg)
                  ELSE NoResponse]

\* C16: two requests served concurrently on the shared workflow instance,
\* switching at the awaits of the service calls, do not affect each other:
\* at every point each run's state, the messages it has sent and its
\* response are those the run would have by itself, given its own request
\* and the replies to its own calls; the two runs hold their state in
\* different places, and a step changes the state of one run only, the one
\* whose handler took the step.
C16_ConcurrentRunsIndependent ==
    /\ [](\A r \in RunIds :
            crun[r].pc # "idle" =>
                /\ cstate[Channel(r)] = OwnOutcome(r).ctx
                /\ crun[r].msgs = OwnOutcome(r).msgs
                /\ crun[r].err = OwnOutcome(r).err
                /\ crun[r].resp = OwnOutcome(r).resp)
    /\ [](\A r, q \in RunIds : r # q => Channel(r) # Channel(q))
    /\ [][\A r \in RunIds :
            cstate'[Channel(r)] # cstate[Channel(r)] =>
                /\ crun'[r] # crun[r]
                /\ \A q \in RunIds \ {r} : /\ crun'[q] = crun[q]
                                             /\ cstate'[Channel(q)] = cstate[Channel(q)]]_vars

\* both runs are in flight at once, at different stages, each awaiting its
\* own service call, with different requests and different urgency levels
C16_Witness ==
    /\ crun["r1"].pc = "await"
    /\ crun["r1"].node = "route_specialist"
    /\ crun["r2"].pc = "await"
    /\ crun["r2"].node = "generate_recommendations"
    /\ crun["r1"].init # crun["r2"].init
    /\ cstate[Channel("r1")]["urgency_level"] = PyEnum("urgent")
    /\ cstate[Channel("r2")]["urgency_level"] = PyEnum("emergency")

\* C17: the result returned to the caller is made of the replies of the
\* run: recommended_specialist and reasoning are the values of the
\* route_specialist reply, urgency_level (as an UrgencyLevel) and red_flags
\* those of the assess_urgency reply, suggested_preparations,
\* suggested_tests and home_care_tips those of the generate_recommendations
\* reply (an omitted list being the empty list).
C17_ResultMatchesStageReplies ==
    resp.status = 200 =>
        /\ \A f \in {"recommended_specialist", "reasoning"} :
               resp.body[f] = DictItem(replies["route_specialist"], f)
        /\ resp.body["urgency_level"] =
               PyEnum(DictItem(replies["assess_urgency"], "urgency_level").v[1])
        /\ resp.body["red_flags"] =
               DictGet(replies["assess_urgency"], "red_flags", PyList(<<>>))
        /\ \A f \in {"suggested_preparations", "suggested_tests", "home_care_tips"} :
               resp.body[f] = DictGet(replies["generate_recommendations"], f, PyList(<<>>))

C17_Witness ==
    /\ resp.status = 200
    /\ resp.body["recommended_specialist"] = PyStr("Pulmonologist")
    /\ resp.body["urgency_level"] = PyEnum("urgent")
    /\ resp.body["red_flags"] = PyList(<<"x">>)
    /\ resp.body["suggested_tests"] = PyList(<<"y">>)
    /\ resp.body["suggested_preparations"] = PyList(<<"x">>)
    /\ DictItem(replies["generate_recommendations"], "suggested_tests") = PyList(<<"y">>)

\* C18: a request sent again with identical input, after the earlier run
\* on the shared workflow returned or failed, is served by a fresh run: it
\* starts at extract_symptoms with the same input fields, every derived
\* field unset and no call, error or response left from the earlier run;
\* and if it returns, its state has the same fields populated, with the
\* same types, as the state of the earlier returned run.
C18_RerunFreshAndSameShape ==
    /\ [][runs >= 1 /\ runs' = runs + 1 =>
            /\ pc' = "node"
            /\ node' = EntryPoint
            /\ created' = created
            /\ \A f \in InputFields : ctx'[f] = created[f]
            /\ \A f \in DerivedFields : ctx'[f] = Unset
            /\ calls' = <<>> /\ completed' = <<>> /\ inflight' = {}
            /\ err' = "" /\ resp' = NoResponse]_vars
    /\ [](RunSucceeded /\ first # NoShape => Shape(ctx) = first)

\* handler h takes a step of its register request
RegisterStep(h, at) == hreq[h].pc = at /\ hreq'[h] # hreq[h]

\* C19: a register request that finds its email or its username on a
\* stored user is answered 400 and stores nothing; a user is stored only by
\* a register request answered 201; and whatever register requests are
\* made, two of them between their checks and their commit included, no two
\* stored users have the same email or the same username.
C19_NoDuplicateUsers ==
    /\ [](\A i, j \in 1..Len(users) :
            i # j => users[i].email # users[j].email
                     /\ users[i].username # users[j].username)
    /\ [][\A h \in Handlers :
            /\ RegisterStep(h, "check_email") /\ ByEmail(users, hreq[h].email) # 0
               => hreq'[h].status = 400 /\ hreq'[h].pc = "done" /\ users' = users
            /\ RegisterStep(h, "check_username") /\ ByUsername(users, hreq[h].username) # 0
               => hreq'[h].status = 400 /\ hreq'[h].pc = "done" /\ users' = users
            /\ RegisterStep(h, "commit")
               => \/ hreq'[h].status = 201 /\ Len(users') = Len(users) + 1
                  \/ hreq'[h].status = 500 /\ users' = users]_vars
    /\ [][Len(users') # Len(users) =>
            \E h \in Handlers : RegisterStep(h, "commit") /\ hreq'[h].status = 201]_vars

\* two register requests with the same email both passed their checks
\* before either committed: one was stored, the other was refused by the
\* table at commit; a third request with that email got 400
C19_Witness ==
    /\ Len(users) = 1
    /\ hreq["h1"].op = "register" /\ hreq["h2"].op = "register"
    /\ hreq["h1"].email = users[1].email
    /\ hreq["h1"].status = 400
    /\ hreq["h2"].email = users[1].email
    /\ hreq["h2"].status = 500

\* C20: authenticate_user returns the user for correct credentials whether
\* the account is active or not, and the login handler checks is_active: a
\* login with the correct credentials of an account whose is_active is
\* false is refused (not answered 200) and issues no token pair.
C20_InactiveLoginRefused ==
    /\ [](\A u \in 1..Len(users) :
            AuthenticateUser(users, users[u].email, "SecurePass123!") = u)
    /\ [][\A h \in Handlers :
            LET u == ByEmail(users, hreq'[h].email)
            IN  /\ hreq'[h] # hreq[h]
                /\ hreq'[h].op = "login"
                /\ u # 0
                /\ VerifyPassword(hreq'[h].password, users[u].hashed_password)
                /\ ~users[u].is_active
                => /\ hreq'[h].status # 200
                   /\ ~hreq'[h].tokens
                   /\ issued' = issued]_vars

\* C21: POST /refresh answers 200 and creates tokens only when the token
\* presented verifies as a refresh token (signed, not expired, of type
\* refresh; an access token gets 401) and its user exists and is active;
\* every other refresh gets 401 and creates nothing.  An account once
\* deactivated stays deactivated, so every later refresh with a token
\* created before the deactivation gets 401.
C21_RefreshOnlyForActiveUser ==
    /\ [][\A token \in jwts \cup {Forged} :
            Refresh("h1", token) =>
                LET good == /\ token \in jwts
                            /\ token.type = "refresh"
                            /\ Instant("refresh", token.n) \notin past
                            /\ token.user_id \in 1..Len(users)
                            /\ users[token.user_id].is_active
                IN  IF good
                    THEN hreq'["h1"].status = 200 /\ hreq'["h1"].tokens
                    ELSE /\ hreq'["h1"].status = 401
                         /\ ~hreq'["h1"].tokens
                         /\ jwts' = jwts
                         /\ issued' = issued]_vars
    /\ [][\A u \in 1..Len(users) : ~users[u].is_active => ~users'[u].is_active]_vars

\* a refresh with an unexpired refresh token of a deactivated account was
\* answered 401
C21_Witness ==
    /\ hreq["h1"].op = "refresh"
    /\ hreq["h1"].status = 401
    /\ hreq["h1"].detail = "Invalid refresh token"
    /\ Len(users) = 1
    /\ ~users[1].is_active
    /\ Jwt("refresh", 1, 2) \in jwts
    /\ Instant("refresh", 2) \notin past

\* the users whose stored reset token is the token
Holders(token) == {u \in 1..Len(users) : users[u].reset_token = token}

\* C22: a reset-password answered 200 stores the hash of the new password
\* for the user found and sets that user's reset_token and
\* reset_token_expires to None, so no user holds the token any more; a
\* token that was handed out and is held by no user stays so, and a
\* reset-password with a token no user holds is answered 400 and leaves
\* every user as it was.
C22_ResetTokenSingleUse ==
    /\ [][\A token \in 1..MaxAuthRequests, pw \in Passwords \cup {NewPassword} :
            ResetPassword("h1", token, pw) =>
                IF hreq'["h1"].status = 200
                THEN /\ Holders(token) # {}
                     /\ Holders(token)' = {}
                     /\ \A u \in Holders(token) :
                            /\ VerifyPassword(pw, users'[u].hashed_password)
                            /\ users'[u].reset_token = 0
                            /\ users'[u].reset_token_expires = 0
                ELSE /\ hreq'["h1"].status = 400
                     /\ users' = users]_vars
    /\ [][\A token \in 1..MaxAuthRequests, pw \in Passwords \cup {NewPassword} :
            Holders(token) = {} /\ ResetPassword("h1", token, pw) =>
                hreq'["h1"].status = 400 /\ users' = users]_vars
    /\ [][\A token \in 1..MaxAuthRequests :
            token <= served /\ Holders(token) = {} => Holders(token)' = {}]_vars

\* the token of a successful reset was presented again and refused, the
\* password of the first reset still stored
C22_Witness ==
    /\ hreq["h1"].op = "reset"
    /\ hreq["h1"].status = 400
    /\ hreq["h1"].link = 2
    /\ hreq["h1"].password = "SecurePass123!"
    /\ Len(users) = 1
    /\ users[1].reset_token = 0
    /\ VerifyPassword(NewPassword, users[1].hashed_password)
    /\ past = {}

\* the reset token's expiry is not later than now
Expired(u) == Instant("reset", users[u].reset_token_expires) \in past

\* C23: a reset-password whose token matches no user, or matches a user
\* whose reset_token_expires is not later than now, is answered 400
\* "Invalid or expired reset token" and changes no user's hashed_password,
\* reset_token or reset_token_expires.
C23_InvalidOrExpiredResetRefused ==
    [][\A token \in 1..MaxAuthRequests, pw \in Passwords \cup {NewPassword} :
          /\ ResetPassword("h1", token, pw)
          /\ \A u \in Holders(token) : Expired(u)
          => /\ hreq'["h1"].status = 400
             /\ hreq'["h1"].detail = "Invalid or expired reset token"
             /\ Len(users') = Len(users)
             /\ \A u \in 1..Len(users) :
                    /\ users'[u].hashed_password = users[u].hashed_password
                    /\ users'[u].reset_token = users[u].reset_token
                    /\ users'[u].reset_token_expires = users[u].reset_token_expires]_vars

\* a reset with the stored token, after its expiry, was refused
C23_Witness ==
    /\ hreq["h1"].op = "reset"
    /\ hreq["h1"].status = 400
    /\ Holders(hreq["h1"].link) # {}
    /\ \A u \in Holders(hreq["h1"].link) : Expired(u)

\* the status and body of forgot_password's answer for an email of no user
UnknownEmailAnswer == [status |-> 200, message |-> ResetMessage, reset_link |-> 0]

\* C24: forgot-password does not reveal whether an account exists: the
\* status and the body (message and reset_link) of every answer are those
\* of the answer for an email that belongs to no user.
C24_ForgotPasswordIndistinguishable ==
    hreq["h1"].op = "forgot" /\ hreq["h1"].pc = "done" =>
        [status |-> hreq["h1"].status,
         message |-> hreq["h1"].detail,
         reset_link |-> hreq["h1"].link] = UnknownEmailAnswer

\* C29: POST /refresh writes nothing: whatever its answer, it leaves every
\* stored user as it was and revokes no token (every token that verified
\* before still verifies, the presented one included); a refresh token that
\* verifies and belongs to an active user is accepted each time it is
\* presented.
C29_RefreshStateless ==
    [][\A token \in jwts \cup {Forged} :
          Refresh("h1", token) =>
              /\ users' = users
              /\ past' = past
              /\ jwts \subseteq jwts'
              /\ VerifyToken(token, "refresh") => VerifyToken(token, "refresh")'
              /\ (hreq'["h1"].status = 200 =>
                      /\ token \in jwts'
                      /\ VerifyToken(token, "refresh")'
                      /\ RefreshUserOk(users', token.user_id))
              /\ (/\ hreq["h1"].op = "refresh"
                  /\ hreq["h1"].status = 200
                  /\ hreq["h1"].refresh_token = token
                  /\ VerifyToken(token, "refresh")
                  /\ users[token.user_id].is_active
                  => hreq'["h1"].status = 200)]_vars

\* the refresh token of the login was presented twice and accepted twice
C29_Witness ==
    /\ hreq["h1"].op = "refresh"
    /\ hreq["h1"].status = 200
    /\ hreq["h1"].refresh_token = Jwt("refresh", 1, 2)
    /\ CreateTokens(1, 3) \cup CreateTokens(1, 4) \subseteq jwts

\* C28: when the stage-1 reply parses to a JSON object that has no
\* extracted_symptoms field, the stage does not fail: extracted_symptoms
\* of the context becomes the empty list and the run moves on to
\* assess_urgency, which sends its request with an empty symptom list.
C28_MissingSymptomsIsEmptyList ==
    /\ [][\A content \in ReplyBodies("extract_symptoms") :
            LET p == ParseResponse(content)
            IN  /\ node = "extract_symptoms"
                /\ ModelReply(content)
                /\ p.exc = ""
                /\ p.kind = "dict"
                /\ ~HasKey(p.obj, "extracted_symptoms")
                => /\ err' = ""
                   /\ ctx'["extracted_symptoms"] = PyList(<<>>)
                   /\ completed' = <<"extract_symptoms">>
                   /\ pc' = "node"
                   /\ node' = "assess_urgency"]_vars
    /\ [][/\ node = "assess_urgency"
          /\ pc = "node"
          /\ ctx["extracted_symptoms"] = PyList(<<>>)
          /\ InvokeModel
          => /\ pc' = "await"
             /\ calls' = Append(calls, "assess_urgency")
             /\ requests'["assess_urgency"]["extracted_symptoms"] = Inc(<<>>)]_vars

\* assess_urgency was called with an empty symptom list after a stage-1
\* reply without the field
C28_Witness ==
    /\ completed = <<"extract_symptoms">>
    /\ ~HasKey(replies["extract_symptoms"], "extracted_symptoms")
    /\ ctx["extracted_symptoms"] = PyList(<<>>)
    /\ node = "assess_urgency"
    /\ pc = "await"
    /\ requests["assess_urgency"]["extracted_symptoms"] = Inc(<<>>)

(***************************************************************************)
(* Properties of the doctor finder (SpecDoctor, SpecGuess)                 *)
(***************************************************************************)
\* a sorts strictly before b by (distance_km, name)
SortsBefore(a, b) ==
    \/ a.distance_km < b.distance_km
    \/ a.distance_km = b.distance_km /\ NameRank(a.name) < NameRank(b.name)

\* the number of entries of the list that equal d
CountOf(list, d) == Cardinality({i \in 1..Len(list) : list[i] = d})

\* the registry results Doctor(...) accepts, as Doctor objects
Converted == ConvertResults(doc.api_results)

\* C25: the doctors of a search response are the first `limit` entries of
\* the converted registry results in ascending order of (distance_km,
\* name): at most limit of them (all when there are fewer), each one a
\* converted result, in ascending order, and no converted result left out
\* sorts before one that is returned.
C25_SearchRespectsLimit ==
    doc.pc = "done" /\ doc.outcome = "results" =>
        /\ Len(doc.doctors) = Min({doc.limit, Len(Converted)})
        /\ doc.total_doctors_found = Len(doc.doctors)
        /\ \A i, j \in 1..Len(doc.doctors) :
               i < j => ~SortsBefore(doc.doctors[j], doc.doctors[i])
        /\ \A i \in 1..Len(doc.doctors) :
               CountOf(doc.doctors, doc.doctors[i]) <= CountOf(Converted, doc.doctors[i])
        /\ \A k \in 1..Len(Converted) :
               CountOf(doc.doctors, Converted[k]) < CountOf(Converted, Converted[k])
               => \A i \in 1..Len(doc.doctors) : ~SortsBefore(Converted[k], doc.doctors[i])

\* three results, one of them refused by Doctor(...), the remaining two at
\* the same distance with the later name first, and a limit of one
C25_Witness ==
    /\ doc.pc = "done"
    /\ doc.outcome = "results"
    /\ doc.limit = 1
    /\ Len(doc.api_results) = 3
    /\ Len(Converted) = 2
    /\ Converted[1].distance_km = Converted[2].distance_km
    /\ SortsBefore(Converted[2], Converted[1])
    /\ doc.doctors = <<Converted[2]>>

\* C26: when the registry returns no results for the ZIP code of the
\* search, the search has made exactly one registry request, for that ZIP
\* code, and its response has total_doctors_found = 0 and no doctors; and
\* a search never has more than one registry request.
C26_NoExpansionOnZeroResults ==
    /\ Len(doc.requests) <= 1
    /\ doc.outcome = "results" /\ doc.api_results = <<>> =>
           /\ doc.pc = "done"
           /\ Len(doc.requests) = 1
           /\ doc.requests[1].postal_code = CleanZip(doc.pincode)
           /\ doc.status = 200
           /\ doc.total_doctors_found = 0
           /\ doc.doctors = <<>>

\* a search was answered after the registry returned an empty list
C26_Witness ==
    /\ doc.pc = "done"
    /\ doc.outcome = "results"
    /\ doc.api_results = <<>>
    /\ Len(doc.requests) = 1
    /\ doc.total_doctors_found = 0

(***************************************************************************)
(* Properties of _guess_state_from_zip (SpecGuess)                         *)
(***************************************************************************)
\* the ZIP code is empty, shorter than two characters, or its first two
\* characters are not both digits
InvalidZip(zip_code) ==
    \/ Len(zip_code) < 2
    \/ ~(IsDigit(zip_code[1]) /\ IsDigit(zip_code[2]))

\* C30: _guess_state_from_zip returns CA for every invalid ZIP code: one
\* that is empty, shorter than two characters, or whose first two
\* characters are not both digits.
C30_InvalidZipDefaultsToCA ==
    guess.called /\ InvalidZip(guess.zip_code) => guess.state = "CA"

(***************************************************************************)
(* Properties of the health history (SpecHistory)                          *)
(***************************************************************************)
\* the table holds no row with this id that the caller owns
NotOwn(table, id, caller) ==
    \A i \in 1..Len(records[table]) :
        records[table][i].id = id => records[table][i].user_id # caller

\* the rows of the tables that the user does not own
RowsOfOthers(user_id) ==
    [t \in Tables |-> SelectSeq(records[t], LAMBDA row : row.user_id # user_id)]

\* C27: health-history records are isolated per user.  A get, update or
\* delete by the id of a record the caller does not own (another user's, or
\* no record at all) is answered 404 and leaves every table as it was; no
\* request changes a row of a user other than its caller; and every row in
\* the answer of a list, a read or the dashboard is owned by the caller,
\* the dashboard's counts being those of the caller's rows.
C27_HistoryIsolatedPerUser ==
    /\ [][/\ hist'.op \in {"get", "update", "delete"}
          /\ NotOwn(hist'.table, hist'.id, hist'.caller)
          => hist'.status = 404 /\ records' = records]_vars
    /\ [][\A c \in Callers :
            hist'.caller = c => RowsOfOthers(c)' = RowsOfOthers(c)]_vars
    /\ [](/\ \A i \in 1..Len(hist.body) : hist.body[i].user_id = hist.caller
          /\ hist.op = "dashboard" =>
                \A t \in Tables :
                    hist.counts[t] =
                        Cardinality({i \in 1..Len(records[t]) :
                                        records[t][i].user_id = hist.caller}))

\* a delete by the id of another user's favourite doctor was answered 404
\* and the row is still there
C27_Witness ==
    /\ hist.op = "delete"
    /\ hist.table = "favorites"
    /\ hist.status = 404
    /\ \E i \in 1..Len(records["favorites"]) :
           /\ records["favorites"][i].id = hist.id
           /\ records["favorites"][i].user_id # hist.caller

====
